---- MODULE Spec2Model ----
(***************************************************************************)
(* Wallet ledger and chat-session controller of the agent marketplace.     *)
(*                                                                         *)
(* The database holds the users' wallet_balance column, the                *)
(* WalletTransaction rows (the ledger), the ChatSession rows, the          *)
(* ChatMessage rows and the AgentExecution rows.  Every request is served  *)
(* by a worker (thread/process per request); a worker steps from one       *)
(* database statement to the next, so requests interleave between          *)
(* statements.  Statements run in autocommit mode except inside            *)
(* User.deduct_balance and User.add_balance, which are @transaction.atomic *)
(* and lock the user row with select_for_update: their writes are kept     *)
(* pending in the worker until the function returns (commit) or raises     *)
(* (rollback).                                                             *)
(*                                                                         *)
(* Money is counted in whole AED; the DecimalField(decimal_places=2)       *)
(* arithmetic is exact on these values, so integers model it.              *)
(***************************************************************************)
EXTENDS Integers, Sequences, FiniteSets, TLC

\* ------------------------------------------------------------------ bounds
\* Number of requests served in one behaviour when requests run concurrently.
MaxRequests == 2
\* Number of requests served in one behaviour when they run one after another.
MaxSerialRequests == 3
\* Number of times the clock is seen to advance.
MaxTime == 1

\* ------------------------------------------------------- program constants
SessionTTL == 30

Workers == {"w1", "w2"}
Users == {"alice", "bob"}
NoWorker == "none"

\* Opening balances of the accounts (each backed by one top_up entry).
InitBalances == {[alice |-> a, bob |-> 5] : a \in {2, 5, 10}}
\* Amounts passed to deduct_balance by callers that take the amount as input.
WithdrawAmounts == {5, 6}
\* Amounts passed to add_balance (a Stripe top-up of 10 AED).
DepositAmounts == {10}

\* The agent definitions (file backed, read only at run time).
AgentSlugs == {"five-whys", "job-posting-generator", "cv-form", "retired-chat"}
AgentConfig ==
    [s \in AgentSlugs |->
        CASE s = "five-whys" ->
               [slug |-> s, price |-> 5, agent_type |-> "chat", is_active |-> TRUE,
                direct |-> FALSE, message_limit |-> 2]
          [] s = "job-posting-generator" ->
               [slug |-> s, price |-> 6, agent_type |-> "form", is_active |-> TRUE,
                direct |-> FALSE]
          [] s = "cv-form" ->
               [slug |-> s, price |-> 5, agent_type |-> "form", is_active |-> TRUE,
                direct |-> TRUE]
          [] OTHER ->
               [slug |-> s, price |-> 5, agent_type |-> "chat", is_active |-> FALSE,
                direct |-> FALSE]]

\* Stripe checkout sessions (external): who pays and how much is credited.
StripeSessions == {"cs_a"}
StripeCheckout ==
    [r \in StripeSessions |-> [client_reference_id |-> "alice", amount |-> 10]]

VARIABLES
    balance,     \* User.wallet_balance of every user row (committed)
    txns,        \* WalletTransaction rows, in creation order (committed)
    sessions,    \* ChatSession rows
    messages,    \* ChatMessage rows, in creation order
    executions,  \* AgentExecution rows
    lock,        \* holder of the row lock of every user row
    paid,        \* Stripe checkout sessions that are paid and complete
    now,         \* the clock
    nreq,        \* number of requests begun
    serial,      \* TRUE when requests are served one after the other
    wk           \* the workers: position and local variables of each

vars == <<balance, txns, sessions, messages, executions, lock, paid, now, nreq,
          serial, wk>>

\* --------------------------------------------------------------- the ledger

RECURSIVE SumAmounts(_)
SumAmounts(s) == IF s = <<>> THEN 0 ELSE Head(s).amount + SumAmounts(Tail(s))

EntriesOf(u) == SelectSeq(txns, LAMBDA e : e.user = u)
EntriesBy(r) == SelectSeq(txns, LAMBDA e : e.req = r)
EntriesWithRef(ref) == SelectSeq(txns, LAMBDA e : e.stripe_session_id = ref)

\* Mutant: the usage entry recorded with the amount unsigned.
UsageEntry_unsigned(u, amt, slug, r) ==
    [user |-> u, amount |-> amt, type |-> "agent_usage", agent_slug |-> slug,
     stripe_session_id |-> "", req |-> r]

\* The row deduct_balance creates.
UsageEntry(u, amt, slug, r) ==
    [user |-> u, amount |-> 0 - amt, type |-> "agent_usage", agent_slug |-> slug,
     stripe_session_id |-> "", req |-> r]

\* The row add_balance creates.
TopUpEntry(u, amt, ref, r) ==
    [user |-> u, amount |-> amt, type |-> "top_up", agent_slug |-> "",
     stripe_session_id |-> ref, req |-> r]

\* ------------------------------------------------------------- the workers

IdleWorker ==
    [pc |-> "idle", op |-> "none", rid |-> 0, user |-> "alice", amt |-> 0,
     agent |-> "five-whys", ref |-> "", sid |-> 0,
     reqBal |-> 0,      \* request.user.wallet_balance (self.wallet_balance)
     ubal |-> 0,        \* user.wallet_balance of the locked row
     txBal |-> <<>>,    \* balance written by user.save(), not yet committed
     txEntry |-> <<>>,  \* WalletTransaction created, not yet committed
     cont |-> "done",   \* where the caller continues after the ledger call
     ret |-> "none",    \* outcome of the ledger call: true, false, raised
     resp |-> "none",   \* response of the request
     row |-> <<>>,      \* the ChatSession object the view holds
     dBal |-> 0]        \* change of the stored balance this request committed

Busy(w) == wk[w].pc \notin {"idle", "done"}

\* A worker takes a new request.
CanBegin(w) ==
    /\ ~Busy(w)
    /\ nreq < (IF serial THEN MaxSerialRequests ELSE MaxRequests)
    /\ serial => w = "w1"

NewRequest(w, op, u) ==
    [IdleWorker EXCEPT !.op = op, !.rid = nreq + 1, !.user = u,
                       !.reqBal = balance[u]]

\* The ledger entry that backs an opening balance.
OpeningEntries(bal) ==
    LET one(u) == IF bal[u] > 0 THEN <<TopUpEntry(u, bal[u], "", 0)>> ELSE <<>>
    IN  one("alice") \o one("bob")

Init ==
    /\ balance \in InitBalances
    /\ txns = OpeningEntries(balance)
    /\ sessions = {}
    /\ messages = <<>>
    /\ executions = {}
    /\ lock = [u \in Users |-> NoWorker]
    /\ paid = {}
    /\ now = 0
    /\ nreq = 0
    /\ serial \in BOOLEAN
    /\ wk = [w \in Workers |-> IdleWorker]

\* ------------------------------------------- User.deduct_balance (withdraw)

\* Mutant: a plain get() that takes no row lock.
SelectForUpdate_unlocked(u) == TRUE

\* select_for_update: the row lock is granted when no transaction holds it.
SelectForUpdate(u) == lock[u] = NoWorker

\* Mutant: the balance check dropped.
Covers_unchecked(bal, amt) == TRUE

\* if user.wallet_balance >= Decimal(str(amount))
Covers(bal, amt) == bal >= amt

\* Leaving the atomic block normally: the pending writes become visible at
\* once and the row lock is released.
Commit(w) ==
    LET u == wk[w].user IN
    /\ balance' = IF wk[w].txBal # <<>>
                   THEN [balance EXCEPT ![u] = wk[w].txBal[1]]
                   ELSE balance
    /\ txns' = txns \o wk[w].txEntry
    /\ lock' = [lock EXCEPT ![u] = NoWorker]

\* Leaving the atomic block by an exception: the pending writes are dropped.
Rollback(w) ==
    /\ lock' = [lock EXCEPT ![wk[w].user] = NoWorker]
    /\ UNCHANGED <<balance, txns>>

\* user = User.objects.select_for_update().get(id=self.id), then the check.
deduct_balance_select(w) ==
    LET u == wk[w].user IN
    /\ wk[w].pc = "d_select"
    /\ SelectForUpdate(u)
    /\ lock' = [lock EXCEPT ![u] = w]
    /\ wk' = [wk EXCEPT ![w].ubal = balance[u],
                        ![w].pc = IF Covers(balance[u], wk[w].amt)
                                  THEN "d_save" ELSE "d_false"]
    /\ UNCHANGED <<balance, txns, sessions, messages, executions, paid, now, nreq,
                   serial>>

\* Mutant: user.save() outside any transaction, visible at once.
deduct_balance_save_autocommit(w) ==
    /\ wk[w].pc = "d_save"
    /\ balance' = [balance EXCEPT ![wk[w].user] = wk[w].ubal - wk[w].amt]
    /\ wk' = [wk EXCEPT ![w].pc = "d_create"]
    /\ UNCHANGED <<txns, sessions, messages, executions, lock, paid, now, nreq,
                   serial>>

\* user.wallet_balance -= amount; user.save()
deduct_balance_save(w) ==
    /\ wk[w].pc = "d_save"
    /\ wk' = [wk EXCEPT ![w].txBal = <<wk[w].ubal - wk[w].amt>>,
                        ![w].pc = "d_create"]
    /\ UNCHANGED <<balance, txns, sessions, messages, executions, lock, paid, now,
                   nreq, serial>>

\* WalletTransaction.objects.create(amount=-amount, type='agent_usage', ...)
deduct_balance_create(w) ==
    /\ wk[w].pc = "d_create"
    /\ wk' = [wk EXCEPT
                ![w].txEntry = <<UsageEntry(wk[w].user, wk[w].amt, wk[w].agent,
                                            wk[w].rid)>>,
                ![w].pc = "d_true"]
    /\ UNCHANGED <<balance, txns, sessions, messages, executions, lock, paid, now,
                   nreq, serial>>

\* self.wallet_balance = user.wallet_balance; return True
deduct_balance_return_true(w) ==
    /\ wk[w].pc = "d_true"
    /\ Commit(w)
    /\ wk' = [wk EXCEPT ![w].ret = "true", ![w].pc = wk[w].cont,
                        ![w].reqBal = IF wk[w].cont = "done" THEN 0
                                      ELSE wk[w].txBal[1],
                        ![w].dBal = wk[w].dBal + wk[w].txBal[1]
                                    - balance[wk[w].user],
                        ![w].ubal = 0, ![w].txBal = <<>>, ![w].txEntry = <<>>]
    /\ UNCHANGED <<sessions, messages, executions, paid, now, nreq, serial>>

\* return False
deduct_balance_return_false(w) ==
    /\ wk[w].pc = "d_false"
    /\ Commit(w)
    /\ wk' = [wk EXCEPT ![w].ret = "false", ![w].pc = wk[w].cont, ![w].ubal = 0]
    /\ UNCHANGED <<sessions, messages, executions, paid, now, nreq, serial>>

\* ------------------------------------------------ User.add_balance (deposit)

\* user = User.objects.select_for_update().get(id=self.id)
add_balance_select(w) ==
    LET u == wk[w].user IN
    /\ wk[w].pc = "a_select"
    /\ SelectForUpdate(u)
    /\ lock' = [lock EXCEPT ![u] = w]
    /\ wk' = [wk EXCEPT ![w].ubal = balance[u], ![w].pc = "a_save"]
    /\ UNCHANGED <<balance, txns, sessions, messages, executions, paid, now, nreq,
                   serial>>

\* user.wallet_balance += amount; user.save()
add_balance_save(w) ==
    /\ wk[w].pc = "a_save"
    /\ wk' = [wk EXCEPT ![w].txBal = <<wk[w].ubal + wk[w].amt>>,
                        ![w].pc = "a_create"]
    /\ UNCHANGED <<balance, txns, sessions, messages, executions, lock, paid, now,
                   nreq, serial>>

\* WalletTransaction.objects.create(amount=amount, type='top_up', ...)
add_balance_create(w) ==
    /\ wk[w].pc = "a_create"
    /\ wk' = [wk EXCEPT
                ![w].txEntry = <<TopUpEntry(wk[w].user, wk[w].amt, wk[w].ref,
                                            wk[w].rid)>>,
                ![w].pc = "a_return"]
    /\ UNCHANGED <<balance, txns, sessions, messages, executions, lock, paid, now,
                   nreq, serial>>

\* self.wallet_balance = user.wallet_balance (the function returns None)
add_balance_return(w) ==
    /\ wk[w].pc = "a_return"
    /\ Commit(w)
    /\ wk' = [wk EXCEPT ![w].ret = "true", ![w].pc = wk[w].cont,
                        ![w].reqBal = IF wk[w].cont = "done" THEN 0
                                      ELSE wk[w].txBal[1],
                        ![w].dBal = wk[w].dBal + wk[w].txBal[1]
                                    - balance[wk[w].user],
                        ![w].ubal = 0, ![w].txBal = <<>>, ![w].txEntry = <<>>]
    /\ UNCHANGED <<sessions, messages, executions, paid, now, nreq, serial>>

\* The storage fails in user.save() or in WalletTransaction.objects.create():
\* the exception leaves the atomic block, which rolls the transaction back.
storage_failure(w) ==
    /\ wk[w].pc \in {"d_save", "d_create", "a_save", "a_create"}
    /\ Rollback(w)
    /\ wk' = [wk EXCEPT ![w].ret = "raised", ![w].pc = wk[w].cont,
                        ![w].ubal = 0, ![w].txBal = <<>>, ![w].txEntry = <<>>]
    /\ UNCHANGED <<sessions, messages, executions, paid, now, nreq, serial>>

\* ---------------------------------------------- direct calls of the ledger

\* user.deduct_balance(amount, description, agent_slug)
withdraw(w, u, amt) ==
    /\ CanBegin(w)
    /\ nreq' = nreq + 1
    /\ wk' = [wk EXCEPT ![w] = [NewRequest(w, "withdraw", u) EXCEPT
                                  !.amt = amt, !.agent = "", !.pc = "d_select"]]
    /\ UNCHANGED <<balance, txns, sessions, messages, executions, lock, paid, now,
                   serial>>

\* user.add_balance(amount, description)
deposit(w, u, amt) ==
    /\ CanBegin(w)
    /\ nreq' = nreq + 1
    /\ wk' = [wk EXCEPT ![w] = [NewRequest(w, "deposit", u) EXCEPT
                                  !.amt = amt, !.pc = "a_select"]]
    /\ UNCHANGED <<balance, txns, sessions, messages, executions, lock, paid, now,
                   serial>>

LedgerSteps(w) ==
    \/ deduct_balance_select(w)
    \/ deduct_balance_save(w)
    \/ deduct_balance_create(w)
    \/ deduct_balance_return_true(w)
    \/ deduct_balance_return_false(w)
    \/ add_balance_select(w)
    \/ add_balance_save(w)
    \/ add_balance_create(w)
    \/ add_balance_return(w)
    \/ storage_failure(w)

\* The ledger alone: any sequence of deposit and withdraw calls, concurrent.
NextLedger ==
    \E w \in Workers :
        \/ \E u \in Users, amt \in WithdrawAmounts : withdraw(w, u, amt)
        \/ \E u \in Users, amt \in DepositAmounts : deposit(w, u, amt)
        \/ LedgerSteps(w)

InitConcurrent == Init /\ serial = FALSE

SpecLedger == InitConcurrent /\ [][NextLedger]_vars

\* ------------------------------------------------- Stripe top-up (deposit)

\* The customer pays: the checkout session becomes paid and complete, and
\* Stripe starts sending checkout.session.completed.
checkout_completed(ref) ==
    /\ ref \notin paid
    /\ paid' = paid \cup {ref}
    /\ UNCHANGED <<balance, txns, sessions, messages, executions, lock, now, nreq,
                   serial, wk>>

\* Mutant: the already-processed lookup finds nothing.
AlreadyProcessed_never(ref) == FALSE

\* existing = WalletTransaction.objects.filter(stripe_session_id=session_id).first()
AlreadyProcessed(ref) == EntriesWithRef(ref) # <<>>

\* StripePaymentHandler.verify_payment up to the call of add_balance.
verify_payment(w, ref) ==
    LET u == StripeCheckout[ref].client_reference_id
        req == [NewRequest(w, "verify_payment", u) EXCEPT
                  !.ref = ref, !.amt = StripeCheckout[ref].amount]
    IN
    /\ CanBegin(w)
    /\ nreq' = nreq + 1
    /\ wk' = [wk EXCEPT ![w] =
                IF ref \notin paid
                THEN [req EXCEPT !.reqBal = 0, !.resp = "not_paid", !.pc = "done"]
                ELSE IF AlreadyProcessed(ref)
                THEN [req EXCEPT !.reqBal = 0, !.resp = "already_processed", !.pc = "done"]
                ELSE [req EXCEPT !.pc = "a_select", !.cont = "v_return"]]
    /\ UNCHANGED <<balance, txns, sessions, messages, executions, lock, paid, now,
                   serial>>

\* verify_payment after add_balance: the result, or 'Processing error'.
verify_payment_return(w) ==
    /\ wk[w].pc = "v_return"
    /\ wk' = [wk EXCEPT ![w].pc = "done", ![w].reqBal = 0,
                        ![w].resp = IF wk[w].ret = "raised" THEN "processing_error"
                                                            ELSE "processed"]
    /\ UNCHANGED <<balance, txns, sessions, messages, executions, lock, paid, now,
                   nreq, serial>>

\* StripePaymentHandler.handle_webhook for a checkout.session.completed event,
\* up to the call of add_balance.
handle_webhook(w, ref) ==
    LET u == StripeCheckout[ref].client_reference_id
        req == [NewRequest(w, "handle_webhook", u) EXCEPT
                  !.ref = ref, !.amt = StripeCheckout[ref].amount]
    IN
    /\ CanBegin(w)
    /\ ref \in paid
    /\ nreq' = nreq + 1
    /\ wk' = [wk EXCEPT ![w] =
                IF AlreadyProcessed(ref)
                THEN [req EXCEPT !.reqBal = 0, !.resp = "success", !.pc = "done"]
                ELSE [req EXCEPT !.pc = "a_select", !.cont = "h_return"]]
    /\ UNCHANGED <<balance, txns, sessions, messages, executions, lock, paid, now,
                   serial>>

\* handle_webhook after add_balance.
handle_webhook_return(w) ==
    /\ wk[w].pc = "h_return"
    /\ wk' = [wk EXCEPT ![w].pc = "done", ![w].reqBal = 0,
                        ![w].resp = IF wk[w].ret = "raised" THEN "processing_error"
                                                            ELSE "success"]
    /\ UNCHANGED <<balance, txns, sessions, messages, executions, lock, paid, now,
                   nreq, serial>>

StripeSteps(w) ==
    \/ \E ref \in StripeSessions : verify_payment(w, ref)
    \/ verify_payment_return(w)
    \/ \E ref \in StripeSessions : handle_webhook(w, ref)
    \/ handle_webhook_return(w)

AddBalanceSteps(w) ==
    \/ add_balance_select(w)
    \/ add_balance_save(w)
    \/ add_balance_create(w)
    \/ add_balance_return(w)
    \/ storage_failure(w)

\* The two paths that credit a Stripe payment, and nothing else.
NextStripe ==
    \/ \E ref \in StripeSessions : checkout_completed(ref)
    \/ \E w \in Workers : StripeSteps(w) \/ AddBalanceSteps(w)

\* Requests served concurrently (serial = FALSE) or one after the other.
SpecStripe == Init /\ [][NextStripe]_vars

\* ----------------------------------------------------------- agent lookup

\* AgentFileService.get_agent_by_slug: the definition, or None.
get_agent_by_slug(slug) ==
    IF slug \in AgentSlugs THEN <<AgentConfig[slug]>> ELSE <<>>

\* Slugs a client may send.
SlugInputs == AgentSlugs \cup {"no-such-agent"}

\* not agent_data or not agent_data.get('is_active', True)
AgentMissing(slug) ==
    get_agent_by_slug(slug) = <<>> \/ ~get_agent_by_slug(slug)[1].is_active

Price(slug) == get_agent_by_slug(slug)[1].price

\* -------------------------------------------------- validate_webhook_url

\* Texts are sequences of characters.
Contains(s, p) ==
    \E i \in 1..(Len(s) - Len(p) + 1) : SubSeq(s, i, i + Len(p) - 1) = p

\* Hostnames, as urlparse(url).hostname gives them (lower case; empty when
\* the URL has none).
Host_localhost == <<"l", "o", "c", "a", "l", "h", "o", "s", "t">>
Host_loopback_ip == <<"1", "2", "7", ".", "0", ".", "0", ".", "1">>
Host_loopback_ip2 == <<"1", "2", "7", ".", "0", ".", "0", ".", "2">>
Host_loopback_ip6 == <<":", ":", "1">>
Host_private_ip == <<"1", "0", ".", "0", ".", "0", ".", "5">>
Host_private_ip2 == <<"1", "9", "2", ".", "1", "6", "8", ".", "1", ".", "1", "0">>
Host_link_local_ip == <<"1", "6", "9", ".", "2", "5", "4", ".", "1", "6", "9", ".", "2", "5", "4">>
Host_multicast_ip == <<"2", "2", "4", ".", "0", ".", "0", ".", "1">>
Host_reserved_ip == <<"2", "4", "0", ".", "0", ".", "0", ".", "1">>
Host_unspecified_ip == <<"0", ".", "0", ".", "0", ".", "0">>
Host_public_ip == <<"8", ".", "8", ".", "8", ".", "8">>
Host_public_domain == <<"a", "p", "i", ".", "e", "x", "a", "m", "p", "l", "e", ".", "c", "o", "m">>
Host_form_domain == <<"f", "o", "r", "m", ".", "j", "o", "t", "f", "o", "r", "m", ".", "c", "o", "m">>
Host_intranet_domain == <<"n", "8", "n", ".", "c", "o", "r", "p">>
Host_metadata_domain == <<"m", "e", "t", "a", "d", "a", "t", "a", ".", "g", "o", "o", "g", "l", "e", ".", "c", "o", "m">>
Host_no_host == <<>>

HostInputs ==
    {Host_localhost, Host_loopback_ip, Host_loopback_ip2, Host_loopback_ip6,
     Host_private_ip, Host_private_ip2, Host_link_local_ip, Host_multicast_ip,
     Host_reserved_ip, Host_unspecified_ip, Host_public_ip, Host_public_domain,
     Host_form_domain, Host_intranet_domain, Host_metadata_domain, Host_no_host}

\* parsed.port: 0 stands for a URL without a port.
PortInputs == {0, 443, 3000, 5678, 8000, 8080, 9999}

SchemeInputs == {"http", "https", "ftp", "internal"}

\* A URL, by the parts urlparse(url) gives to the validator.
UrlInputs ==
    [scheme : SchemeInputs, hostname : HostInputs, port : PortInputs]

\* The parts of a dotted name.
RECURSIVE Split(_, _)
Split(s, sep) ==
    IF \A i \in 1..Len(s) : s[i] # sep
    THEN <<s>>
    ELSE LET i == CHOOSE k \in 1..Len(s) :
                    s[k] = sep /\ \A j \in 1..(k - 1) : s[j] # sep
         IN  <<SubSeq(s, 1, i - 1)>> \o Split(SubSeq(s, i + 1, Len(s)), sep)

Digits == <<"0", "1", "2", "3", "4", "5", "6", "7", "8", "9">>

DigitValue(c) == (CHOOSE d \in 1..10 : Digits[d] = c) - 1

RECURSIVE Decimal(_)
Decimal(s) ==
    IF s = <<>> THEN 0
    ELSE 10 * Decimal(SubSeq(s, 1, Len(s) - 1)) + DigitValue(s[Len(s)])

\* One part of an IPv4 literal: 1 to 3 decimal digits, no leading zero, at
\* most 255.
IsOctet(s) ==
    /\ Len(s) \in 1..3
    /\ \A i \in 1..Len(s) : \E d \in 1..10 : Digits[d] = s[i]
    /\ Len(s) > 1 => s[1] # "0"
    /\ Decimal(s) <= 255

\* Mutant: no hostname is taken for an IP literal.
ip_address_none(hostname) == <<>>

\* ipaddress.ip_address(hostname): <<the address>>, or <<>> for the
\* ValueError "... does not appear to be an IPv4 or IPv6 address".  IPv6 is
\* limited to the literals ::1 and ::.
ip_address(hostname) ==
    LET parts == Split(hostname, ".") IN
    IF Len(parts) = 4 /\ \A i \in 1..4 : IsOctet(parts[i])
    THEN <<[version |-> 4, octets |-> [i \in 1..4 |-> Decimal(parts[i])]]>>
    ELSE IF hostname = <<":", ":", "1">>
    THEN <<[version |-> 6, octets |-> <<0, 0, 0, 0, 0, 0, 0, 1>>]>>
    ELSE IF hostname = <<":", ":">>
    THEN <<[version |-> 6, octets |-> <<0, 0, 0, 0, 0, 0, 0, 0>>]>>
    ELSE <<>>

is_loopback(ip) ==
    IF ip.version = 4 THEN ip.octets[1] = 127
    ELSE ip.octets = <<0, 0, 0, 0, 0, 0, 0, 1>>

is_unspecified(ip) == \A i \in DOMAIN ip.octets : ip.octets[i] = 0

is_link_local(ip) ==
    ip.version = 4 /\ ip.octets[1] = 169 /\ ip.octets[2] = 254

is_multicast(ip) == ip.version = 4 /\ ip.octets[1] \in 224..239

is_reserved(ip) == ip.version = 4 /\ ip.octets[1] \in 240..255

\* The networks ipaddress lists as private (the IANA special-purpose
\* registries): 0/8, 10/8, 127/8, 169.254/16, 172.16/12, 192.0.0/29,
\* 192.0.0.170/31, 192.0.2/24, 192.168/16, 198.18/15, 198.51.100/24,
\* 203.0.113/24, 240/4, 255.255.255.255; ::1 and :: for IPv6.
is_private(ip) ==
    LET o == ip.octets IN
    IF ip.version = 6 THEN TRUE
    ELSE \/ o[1] \in {0, 10, 127}
         \/ o[1] = 169 /\ o[2] = 254
         \/ o[1] = 172 /\ o[2] \in 16..31
         \/ o[1] = 192 /\ o[2] = 0 /\ o[3] = 0 /\ o[4] \in (0..7) \cup {170, 171}
         \/ o[1] = 192 /\ o[2] = 0 /\ o[3] = 2
         \/ o[1] = 192 /\ o[2] = 168
         \/ o[1] = 198 /\ o[2] \in {18, 19}
         \/ o[1] = 198 /\ o[2] = 51 /\ o[3] = 100
         \/ o[1] = 203 /\ o[2] = 0 /\ o[3] = 113
         \/ o[1] \in 240..255

localhost_patterns ==
    {<<"l", "o", "c", "a", "l", "h", "o", "s", "t">>,
     <<"1", "2", "7", ".", "0", ".", "0", ".", "1">>,
     <<"0", ".", "0", ".", "0", ".", "0">>, <<":", ":", "1">>,
     <<"l", "o", "c", "a", "l">>, <<"i", "n", "t", "e", "r", "n", "a", "l">>,
     <<"p", "r", "i", "v", "a", "t", "e">>}

suspicious_patterns ==
    {<<".", "l", "o", "c", "a", "l">>, <<".", "i", "n", "t", "e", "r", "n", "a", "l">>,
     <<".", "p", "r", "i", "v", "a", "t", "e">>, <<".", "c", "o", "r", "p">>, <<".", "l", "a", "n">>,
     <<"m", "e", "t", "a", "d", "a", "t", "a">>,
     <<"i", "n", "s", "t", "a", "n", "c", "e", "-", "d", "a", "t", "a">>,
     <<"u", "s", "e", "r", "-", "d", "a", "t", "a">>}

allowed_dev_ports == {5678, 8000, 8080, 3000}

Accepted == "accepted"

\* validate_webhook_url(url) under settings.DEBUG = debug: Accepted when it
\* returns True, otherwise the reason carried by the ValueError
\* "Invalid webhook URL: <reason>" it raises.
validate_webhook_url(url, debug) ==
    LET hostname == url.hostname
        ip == ip_address(hostname)
        internal(a) == \/ is_private(a) \/ is_reserved(a) \/ is_link_local(a)
                       \/ is_multicast(a) \/ is_unspecified(a)
    IN
    IF url.scheme = "internal" THEN Accepted
    ELSE IF url.scheme \notin {"http", "https"}
    THEN "Only HTTP/HTTPS URLs are allowed"
    ELSE IF hostname = <<>>
    THEN "Invalid hostname in URL"
    ELSE IF ~debug /\ url.scheme # "https"
    THEN "Only HTTPS URLs allowed in production"
    ELSE IF ~debug /\ \E p \in localhost_patterns : Contains(hostname, p)
    THEN "Localhost/internal addresses not allowed in production"
    ELSE IF /\ debug
            /\ hostname \in {Host_localhost, Host_loopback_ip}
            /\ url.port \in allowed_dev_ports
    THEN Accepted
    ELSE IF ip # <<>> /\ ~debug /\ (internal(ip[1]) \/ is_loopback(ip[1]))
    THEN "Internal/private IP addresses not allowed in production"
    ELSE IF /\ ip # <<>> /\ debug /\ is_loopback(ip[1])
            /\ url.port \notin allowed_dev_ports
    THEN "Loopback IP only allowed on ports [5678, 8000, 8080, 3000]"
    ELSE IF ip # <<>> /\ debug /\ ~is_loopback(ip[1]) /\ internal(ip[1])
    THEN "Internal/private IP addresses not allowed"
    ELSE IF ~debug /\ \E p \in suspicious_patterns : Contains(hostname, p)
    THEN "Suspicious domain pattern detected"
    ELSE Accepted

\* --------------------------------------------------- the call of a webhook

\* settings.DEBUG of the deployed application.
DEBUG == FALSE

\* agent_data['webhook_url'] of each agent file: the n8n webhooks of the
\* agents in service, the address of an external form, and a development
\* URL left in the file of an agent taken out of service.
webhook_url(slug) ==
    CASE slug \in {"five-whys", "job-posting-generator"} ->
           [scheme |-> "https", hostname |-> Host_public_domain, port |-> 0]
      [] slug = "cv-form" ->
           [scheme |-> "http", hostname |-> Host_form_domain, port |-> 0]
      [] OTHER ->
           [scheme |-> "http", hostname |-> Host_localhost, port |-> 5678]

\* What requests.post to the webhook comes to: a 200 reply, a 200 reply
\* whose JSON object has an errorMessage or error key, another status, an
\* exception of requests.post (timeout, connection error), a 200 whose body
\* response.json() cannot parse.
PostOutcomes == {"200", "200_error", "503", "timeout", "bad_json"}

\* What the call of the agent's webhook comes to: one of these, or
\* validate_webhook_url refusing the URL before anything is posted.
GatewayOutcomes == PostOutcomes \cup {"rejected_url"}

\* Mutant: the webhook is posted to whatever validate_webhook_url says.
call_webhook_unvalidated(slug) == PostOutcomes

\* validate_webhook_url(webhook_url) and then requests.post(webhook_url, ...)
call_webhook(slug) ==
    IF validate_webhook_url(webhook_url(slug), DEBUG) = Accepted
    THEN PostOutcomes
    ELSE {"rejected_url"}

\* ------------------------------------------------------------------ clock

\* The clock is observed at instants a session lifetime and a minute apart,
\* so that every advance passes the expiry of the sessions started before it.
ClockStep == SessionTTL + 1

Tick ==
    /\ now < MaxTime * ClockStep
    /\ now' = now + ClockStep
    /\ UNCHANGED <<balance, txns, sessions, messages, executions, lock, paid, nreq,
                   serial, wk>>

\* ------------------------------------------------------ start_chat_session

\* Mutant: the session created without its 30 minutes of life.
NewSession_no_ttl(sid, u, slug) ==
    [sid |-> sid, user |-> u, agent |-> slug, status |-> "active",
     fee_charged |-> Price(slug), expires_at |-> now, created_at |-> now,
     completed_at |-> -1]

\* ChatSession.objects.create(..., fee_charged=agent_price, status='active',
\*                            expires_at=timezone.now() + timedelta(minutes=30))
NewSession(sid, u, slug) ==
    [sid |-> sid, user |-> u, agent |-> slug, status |-> "active",
     fee_charged |-> Price(slug), expires_at |-> now + SessionTTL,
     created_at |-> now, completed_at |-> -1]

\* ChatSession.objects.filter(agent_slug=..., user=..., status='active'):
\* .first() takes the newest (Meta.ordering = ['-created_at']).
ActiveSessions(u, slug) ==
    {r \in sessions : r.user = u /\ r.agent = slug /\ r.status = "active"}
Newest(rows) == {r \in rows : \A q \in rows : q.created_at <= r.created_at}

\* Model.save(): UPDATE the row with this primary key, INSERT it if absent.
SaveSession(row) == {r \in sessions : r.sid # row.sid} \cup {row}

\* Model.delete(): the row goes, and its messages with it (on_delete=CASCADE).
DeleteSession(sid) ==
    /\ sessions' = {r \in sessions : r.sid # sid}
    /\ messages' = SelectSeq(messages, LAMBDA m : m.session # sid)

\* The view up to its balance check: agent lookup, then
\* request.user.wallet_balance < agent_price.
start_chat_session(w, u, slug) ==
    LET req == [NewRequest(w, "start_chat_session", u) EXCEPT !.agent = slug] IN
    /\ CanBegin(w)
    /\ nreq' = nreq + 1
    /\ wk' = [wk EXCEPT ![w] =
                IF AgentMissing(slug) \/ get_agent_by_slug(slug)[1].agent_type # "chat"
                THEN [req EXCEPT !.reqBal = 0, !.resp = "agent_not_found", !.pc = "done"]
                ELSE IF balance[u] < Price(slug)
                THEN [req EXCEPT !.reqBal = 0, !.resp = "insufficient_balance", !.pc = "done"]
                ELSE [req EXCEPT !.pc = "s_lookup"]]
    /\ UNCHANGED <<balance, txns, sessions, messages, executions, lock, paid, now,
                   serial>>

\* existing_session = ChatSession.objects.filter(...).first()
start_chat_session_lookup(w) ==
    LET found == Newest(ActiveSessions(wk[w].user, wk[w].agent)) IN
    /\ wk[w].pc = "s_lookup"
    /\ \/ /\ found = {}
          /\ wk' = [wk EXCEPT ![w].pc = "s_create"]
       \/ \E r \in found :
             wk' = [wk EXCEPT ![w].pc = "done", ![w].reqBal = 0, ![w].resp = "existing",
                              ![w].sid = r.sid]
    /\ UNCHANGED <<balance, txns, sessions, messages, executions, lock, paid, now,
                   nreq, serial>>

\* chat_session = ChatSession.objects.create(...), then the call of
\* request.user.deduct_balance(agent_price, ...).
start_chat_session_create(w) ==
    /\ wk[w].pc = "s_create"
    /\ sessions' = sessions \cup {NewSession(wk[w].rid, wk[w].user, wk[w].agent)}
    /\ wk' = [wk EXCEPT ![w].sid = wk[w].rid, ![w].amt = Price(wk[w].agent),
                        ![w].pc = "d_select", ![w].cont = "s_paid"]
    /\ UNCHANGED <<balance, txns, messages, executions, lock, paid, now, nreq,
                   serial>>

\* Mutant: the payment fails and the session row is left behind.
start_chat_session_refuse_keep(w) ==
    /\ wk[w].pc = "s_paid"
    /\ wk[w].ret # "true"
    /\ wk' = [wk EXCEPT ![w].pc = "done", ![w].reqBal = 0,
                        ![w].resp = IF wk[w].ret = "false" THEN "payment_failed"
                                                           ELSE "payment_error"]
    /\ UNCHANGED <<balance, txns, sessions, messages, executions, lock, paid, now,
                   nreq, serial>>

\* not success, or an exception: chat_session.delete() and an error response.
start_chat_session_refuse(w) ==
    /\ wk[w].pc = "s_paid"
    /\ wk[w].ret # "true"
    /\ DeleteSession(wk[w].sid)
    /\ wk' = [wk EXCEPT ![w].pc = "done", ![w].reqBal = 0,
                        ![w].resp = IF wk[w].ret = "false" THEN "payment_failed"
                                                           ELSE "payment_error"]
    /\ UNCHANGED <<balance, txns, executions, lock, paid, now, nreq, serial>>

\* The welcome message and the response.
start_chat_session_welcome(w) ==
    /\ wk[w].pc = "s_paid"
    /\ wk[w].ret = "true"
    /\ messages' = Append(messages, [session |-> wk[w].sid, message_type |-> "agent",
                                     content |-> "welcome", req |-> wk[w].rid])
    /\ wk' = [wk EXCEPT ![w].pc = "done", ![w].reqBal = 0, ![w].resp = "started"]
    /\ UNCHANGED <<balance, txns, sessions, executions, lock, paid, now, nreq,
                   serial>>

\* -------------------------------------------------------- end_chat_session

\* Session ids a client may send.
SessionIdInputs == {r.sid : r \in sessions} \cup {0}

\* get_object_or_404(ChatSession, session_id=..., user=request.user,
\*                   status='active')
end_chat_session(w, u, sid) ==
    LET req == [NewRequest(w, "end_chat_session", u) EXCEPT !.sid = sid]
        found == {r \in sessions : r.sid = sid /\ r.user = u /\ r.status = "active"}
    IN
    /\ CanBegin(w)
    /\ nreq' = nreq + 1
    /\ \/ /\ found = {}
          /\ wk' = [wk EXCEPT ![w] = [req EXCEPT !.reqBal = 0, !.resp = "not_found",
                                                 !.pc = "done"]]
       \/ \E r \in found :
             wk' = [wk EXCEPT ![w] = [req EXCEPT !.row = <<r>>, !.pc = "e_save"]]
    /\ UNCHANGED <<balance, txns, sessions, messages, executions, lock, paid, now,
                   serial>>

\* Mutant: the session is ended without its completion time.
end_chat_session_save_unstamped(w) ==
    /\ wk[w].pc = "e_save"
    /\ sessions' = SaveSession([wk[w].row[1] EXCEPT !.status = "completed"])
    /\ wk' = [wk EXCEPT ![w].pc = "done", ![w].reqBal = 0, ![w].resp = "ended", ![w].row = <<>>]
    /\ UNCHANGED <<balance, txns, messages, executions, lock, paid, now, nreq,
                   serial>>

\* chat_session.status = 'completed'; completed_at = now; chat_session.save()
end_chat_session_save(w) ==
    /\ wk[w].pc = "e_save"
    /\ sessions' = SaveSession([wk[w].row[1] EXCEPT !.status = "completed",
                                                    !.completed_at = now])
    /\ wk' = [wk EXCEPT ![w].pc = "done", ![w].reqBal = 0, ![w].resp = "ended", ![w].row = <<>>]
    /\ UNCHANGED <<balance, txns, messages, executions, lock, paid, now, nreq,
                   serial>>

\* ------------------------------------------------------- wallet_deduct_api

\* Amounts a client may send (0 stands for a missing amount).
DeductInputs == WithdrawAmounts \cup {0}

\* The view up to the call of deduct_balance: the amount is validated and
\* request.user.has_sufficient_balance(amount) is checked.
wallet_deduct_api(w, u, amt) ==
    LET req == [NewRequest(w, "wallet_deduct_api", u) EXCEPT
                  !.amt = amt, !.agent = "unknown"] IN
    /\ CanBegin(w)
    /\ nreq' = nreq + 1
    /\ wk' = [wk EXCEPT ![w] =
                IF amt = 0
                THEN [req EXCEPT !.reqBal = 0, !.resp = "amount_required", !.pc = "done"]
                ELSE IF ~(balance[u] >= amt)
                THEN [req EXCEPT !.reqBal = 0, !.resp = "insufficient_balance", !.pc = "done"]
                ELSE [req EXCEPT !.pc = "d_select", !.cont = "wd_return"]]
    /\ UNCHANGED <<balance, txns, sessions, messages, executions, lock, paid, now,
                   serial>>

\* The result of deduct_balance is not looked at: 'success', unless it raised.
wallet_deduct_api_return(w) ==
    /\ wk[w].pc = "wd_return"
    /\ wk' = [wk EXCEPT ![w].pc = "done", ![w].reqBal = 0,
                        ![w].resp = IF wk[w].ret = "raised" THEN "internal_error"
                                                            ELSE "success"]
    /\ UNCHANGED <<balance, txns, sessions, messages, executions, lock, paid, now,
                   nreq, serial>>

\* ----------------------------------------------------------- execute_agent

\* The view up to the call of deduct_balance: agent lookup, balance check,
\* AgentExecution.objects.create(status='pending').
execute_agent(w, u, slug) ==
    LET req == [NewRequest(w, "execute_agent", u) EXCEPT !.agent = slug] IN
    /\ CanBegin(w)
    /\ nreq' = nreq + 1
    /\ IF AgentMissing(slug)
       THEN /\ wk' = [wk EXCEPT ![w] = [req EXCEPT !.reqBal = 0, !.resp = "agent_not_found",
                                                   !.pc = "done"]]
            /\ UNCHANGED executions
       ELSE IF ~(balance[u] >= Price(slug))
       THEN /\ wk' = [wk EXCEPT ![w] = [req EXCEPT !.reqBal = 0, !.resp = "insufficient_balance",
                                                   !.pc = "done"]]
            /\ UNCHANGED executions
       ELSE /\ wk' = [wk EXCEPT ![w] = [req EXCEPT !.amt = Price(slug),
                                                   !.pc = "d_select",
                                                   !.cont = "x_paid"]]
            /\ executions' = executions \cup
                 {[id |-> nreq + 1, user |-> u, agent |-> slug,
                   status |-> "pending", fee_charged |-> Price(slug)]}
    /\ UNCHANGED <<balance, txns, sessions, messages, lock, paid, now, serial>>

SetExecutionStatus(id, st) ==
    executions' = {IF x.id = id THEN [x EXCEPT !.status = st] ELSE x : x \in executions}

\* After deduct_balance: not success marks the execution failed; an exception
\* of deduct_balance is not a RequestException and leaves the view.
execute_agent_paid(w) ==
    /\ wk[w].pc = "x_paid"
    /\ CASE wk[w].ret = "false" ->
              /\ SetExecutionStatus(wk[w].rid, "failed")
              /\ wk' = [wk EXCEPT ![w].pc = "done", ![w].reqBal = 0, ![w].resp = "deduct_failed"]
         [] wk[w].ret = "raised" ->
              /\ UNCHANGED executions
              /\ wk' = [wk EXCEPT ![w].pc = "done", ![w].reqBal = 0, ![w].resp = "server_error"]
         [] OTHER ->
              /\ UNCHANGED executions
              /\ wk' = [wk EXCEPT ![w].pc = "x_run"]
    /\ UNCHANGED <<balance, txns, sessions, messages, lock, paid, now, nreq, serial>>

\* validate_webhook_url(agent_data['webhook_url']): a ValueError marks the
\* execution failed (HTTP 400); otherwise the execution is saved as running.
execute_agent_run(w) ==
    /\ wk[w].pc = "x_run"
    /\ IF "rejected_url" \in call_webhook(wk[w].agent)
       THEN /\ SetExecutionStatus(wk[w].rid, "failed")
            /\ wk' = [wk EXCEPT ![w].pc = "done", ![w].reqBal = 0,
                                ![w].ret = "rejected_url",
                                ![w].resp = "invalid_webhook_url"]
       ELSE /\ SetExecutionStatus(wk[w].rid, "running")
            /\ wk' = [wk EXCEPT ![w].pc = "x_post"]
    /\ UNCHANGED <<balance, txns, sessions, messages, lock, paid, now, nreq, serial>>

\* requests.post(..., timeout=90) and what the view makes of it: completed
\* (HTTP 201) on a 200 without error marker, failed (HTTP 400) on a 200 with
\* one and on another status, failed (HTTP 500) on a RequestException.  A
\* body that response.json() cannot parse raises a RequestException or, with
\* an older requests library, a ValueError the view does not catch.
execute_agent_post(w) ==
    /\ wk[w].pc = "x_post"
    /\ \E outcome \in call_webhook(wk[w].agent) :
          \/ /\ outcome = "200"
             /\ SetExecutionStatus(wk[w].rid, "completed")
             /\ wk' = [wk EXCEPT ![w].pc = "done", ![w].reqBal = 0,
                                 ![w].ret = outcome, ![w].resp = "completed"]
          \/ /\ outcome \in {"200_error", "503"}
             /\ SetExecutionStatus(wk[w].rid, "failed")
             /\ wk' = [wk EXCEPT ![w].pc = "done", ![w].reqBal = 0,
                                 ![w].ret = outcome, ![w].resp = "failed"]
          \/ /\ outcome \in {"timeout", "bad_json"}
             /\ SetExecutionStatus(wk[w].rid, "failed")
             /\ wk' = [wk EXCEPT ![w].pc = "done", ![w].reqBal = 0,
                                 ![w].ret = outcome, ![w].resp = "request_failed"]
          \/ /\ outcome = "bad_json"
             /\ UNCHANGED executions
             /\ wk' = [wk EXCEPT ![w].pc = "done", ![w].reqBal = 0,
                                 ![w].ret = outcome, ![w].resp = "server_error"]
    /\ UNCHANGED <<balance, txns, sessions, messages, lock, paid, now, nreq, serial>>

\* --------------------------------------------------- direct_access_handler

\* The whole view: agent lookup, balance check, and the payment record
\* WalletTransaction.objects.create(amount=-agent_price, type='agent_usage').
direct_access_handler(w, u, slug) ==
    LET req == [NewRequest(w, "direct_access_handler", u) EXCEPT !.agent = slug] IN
    /\ CanBegin(w)
    /\ nreq' = nreq + 1
    /\ IF AgentMissing(slug)
       THEN /\ wk' = [wk EXCEPT ![w] = [req EXCEPT !.reqBal = 0, !.resp = "agent_not_found",
                                                   !.pc = "done"]]
            /\ UNCHANGED txns
       ELSE IF ~get_agent_by_slug(slug)[1].direct
       THEN /\ wk' = [wk EXCEPT ![w] = [req EXCEPT !.reqBal = 0, !.resp = "not_direct_access",
                                                   !.pc = "done"]]
            /\ UNCHANGED txns
       ELSE IF Price(slug) > 0 /\ balance[u] < Price(slug)
       THEN /\ wk' = [wk EXCEPT ![w] = [req EXCEPT !.reqBal = 0, !.resp = "insufficient_balance",
                                                   !.pc = "done"]]
            /\ UNCHANGED txns
       ELSE \/ /\ txns' = IF Price(slug) > 0
                          THEN Append(txns, UsageEntry(u, Price(slug), slug, nreq + 1))
                          ELSE txns
               /\ wk' = [wk EXCEPT ![w] = [req EXCEPT !.reqBal = 0, !.resp = "access_granted",
                                                      !.pc = "done"]]
            \/ /\ Price(slug) > 0
               /\ UNCHANGED txns
               /\ wk' = [wk EXCEPT ![w] = [req EXCEPT !.reqBal = 0, !.resp = "payment_failed",
                                                      !.pc = "done"]]
    /\ UNCHANGED <<balance, sessions, messages, executions, lock, paid, now, serial>>

\* ------------------------------------------------------------ the system

DeductBalanceSteps(w) ==
    \/ deduct_balance_select(w)
    \/ deduct_balance_save(w)
    \/ deduct_balance_create(w)
    \/ deduct_balance_return_true(w)
    \/ deduct_balance_return_false(w)
    \/ storage_failure(w)

ChatSteps(w) ==
    \/ \E u \in Users, slug \in SlugInputs : start_chat_session(w, u, slug)
    \/ start_chat_session_lookup(w)
    \/ start_chat_session_create(w)
    \/ start_chat_session_refuse(w)
    \/ start_chat_session_welcome(w)
    \/ \E u \in Users, sid \in SessionIdInputs : end_chat_session(w, u, sid)
    \/ end_chat_session_save(w)

WalletApiSteps(w) ==
    \/ \E u \in Users, amt \in DeductInputs : wallet_deduct_api(w, u, amt)
    \/ wallet_deduct_api_return(w)

ExecutionSteps(w) ==
    \/ \E u \in Users, slug \in SlugInputs : execute_agent(w, u, slug)
    \/ execute_agent_paid(w)
    \/ execute_agent_run(w)
    \/ execute_agent_post(w)

\* The chat controller.
NextChat ==
    \/ Tick
    \/ \E w \in Workers : ChatSteps(w) \/ DeductBalanceSteps(w)

\* Requests served concurrently (serial = FALSE) or one after the other.
SpecChat == Init /\ [][NextChat]_vars

\* Every operation that touches the wallet.
Next ==
    \/ Tick
    \/ \E ref \in StripeSessions : checkout_completed(ref)
    \/ \E w \in Workers :
          \/ ChatSteps(w)
          \/ WalletApiSteps(w)
          \/ ExecutionSteps(w)
          \/ \E u \in Users, slug \in SlugInputs : direct_access_handler(w, u, slug)
          \/ StripeSteps(w)
          \/ LedgerSteps(w)

\* The whole system, requests served concurrently.
Spec == InitConcurrent /\ [][Next]_vars

\* Two calls of deduct_balance, one per worker, racing on the ledger.
race_withdraw(w, u, amt) ==
    /\ wk[w].pc = "idle"
    /\ withdraw(w, u, amt)

NextRace ==
    \E w \in Workers :
        \/ \E u \in Users, amt \in WithdrawAmounts : race_withdraw(w, u, amt)
        \/ deduct_balance_select(w)
        \/ deduct_balance_save(w)
        \/ deduct_balance_create(w)
        \/ deduct_balance_return_true(w)
        \/ deduct_balance_return_false(w)
        \/ storage_failure(w)

SpecRace == InitConcurrent /\ [][NextRace]_vars

\* ------------------------------------------------------- send_chat_message

\* agent_data.get('message_limit', 50) if agent_data else 50
DefaultMessageLimit == 50

message_limit(slug) ==
    LET agent_data == get_agent_by_slug(slug) IN
    IF agent_data # <<>> /\ "message_limit" \in DOMAIN agent_data[1]
    THEN agent_data[1].message_limit
    ELSE DefaultMessageLimit

\* Mutant: no session is ever seen as expired.
is_expired_never(row) == FALSE

\* ChatSession.is_expired(): timezone.now() > self.expires_at
is_expired(row) == now > row.expires_at

\* ChatMessage.objects.filter(session=chat_session, message_type='user').count()
UserMessageCount(sid) ==
    Len(SelectSeq(messages, LAMBDA m : m.session = sid /\ m.message_type = "user"))

\* Message texts a client may send ("" stands for a missing message).
MessageInputs == {"", "hello"}

\* The ChatMessage row created for the user's text.
UserMessage(sid, text, r) ==
    [session |-> sid, message_type |-> "user", content |-> text, req |-> r,
     metadata |-> [error |-> ""]]

\* The ChatMessage row created after the webhook call: the text taken from
\* the body of a 200 reply (no key of the body is looked at as an error
\* marker), or one of the two apologies with the error in its metadata.
AgentMessage(sid, outcome, r) ==
    [session |-> sid, message_type |-> "agent", req |-> r,
     content |-> CASE outcome \in {"200", "200_error"} -> "reply"
                   [] outcome = "503" -> "trouble_processing"
                   [] OTHER -> "technical_difficulties",
     metadata |-> [error |-> IF outcome \in {"200", "200_error"} THEN "" ELSE outcome]]

\* HTTP status of each response of the chat views.
HttpStatus(resp) ==
    CASE resp \in {"reply", "existing", "started", "ended"} -> 200
      [] resp = "apology_accepted" -> 202
      [] resp \in {"not_found", "agent_not_found"} -> 404
      [] resp \in {"apology_error", "payment_error", "server_error"} -> 500
      [] OTHER -> 400

\* The view up to its first write: input validation, get_object_or_404 of
\* the caller's active session, is_expired(), the count of user messages.
send_chat_message(w, u, sid, text) ==
    LET req == [NewRequest(w, "send_chat_message", u) EXCEPT !.sid = sid, !.reqBal = 0]
        found == {r \in sessions : r.sid = sid /\ r.user = u /\ r.status = "active"}
    IN
    /\ CanBegin(w)
    /\ nreq' = nreq + 1
    /\ \/ /\ text = ""
          /\ wk' = [wk EXCEPT ![w] = [req EXCEPT !.resp = "invalid_input", !.pc = "done"]]
       \/ /\ text # ""
          /\ found = {}
          /\ wk' = [wk EXCEPT ![w] = [req EXCEPT !.resp = "not_found", !.pc = "done"]]
       \/ /\ text # ""
          /\ \E r \in found :
                wk' = [wk EXCEPT ![w] =
                         [req EXCEPT !.row = <<r>>, !.agent = r.agent, !.ref = text,
                                     !.pc = IF is_expired(r) THEN "m_expire"
                                            ELSE IF UserMessageCount(sid) >= message_limit(r.agent)
                                            THEN "m_limit"
                                            ELSE "m_user"]]
    /\ UNCHANGED <<balance, txns, sessions, messages, executions, lock, paid, now,
                   serial>>

\* Mutant: the expiry branch saves the session as it was loaded.
send_chat_message_expire_stale(w) ==
    /\ wk[w].pc = "m_expire"
    /\ sessions' = SaveSession(wk[w].row[1])
    /\ wk' = [wk EXCEPT ![w].pc = "done", ![w].resp = "session_expired"]
    /\ UNCHANGED <<balance, txns, messages, executions, lock, paid, now, nreq,
                   serial>>

\* chat_session.status = 'expired'; chat_session.save()
send_chat_message_expire(w) ==
    /\ wk[w].pc = "m_expire"
    /\ sessions' = SaveSession([wk[w].row[1] EXCEPT !.status = "expired"])
    /\ wk' = [wk EXCEPT ![w].pc = "done", ![w].resp = "session_expired"]
    /\ UNCHANGED <<balance, txns, messages, executions, lock, paid, now, nreq,
                   serial>>

\* Mutant: the message limit is reported and the session left as it is.
send_chat_message_limit_keep(w) ==
    /\ wk[w].pc = "m_limit"
    /\ wk' = [wk EXCEPT ![w].pc = "done", ![w].resp = "limit_reached"]
    /\ UNCHANGED <<balance, txns, sessions, messages, executions, lock, paid, now,
                   nreq, serial>>

\* chat_session.status = 'completed'; completed_at = now; chat_session.save()
send_chat_message_limit(w) ==
    /\ wk[w].pc = "m_limit"
    /\ sessions' = SaveSession([wk[w].row[1] EXCEPT !.status = "completed",
                                                    !.completed_at = now])
    /\ wk' = [wk EXCEPT ![w].pc = "done", ![w].resp = "limit_reached"]
    /\ UNCHANGED <<balance, txns, messages, executions, lock, paid, now, nreq,
                   serial>>

\* user_message = ChatMessage.objects.create(...): an IntegrityError, not
\* caught by the view, when the session row is gone.
send_chat_message_user(w) ==
    /\ wk[w].pc = "m_user"
    /\ IF \E r \in sessions : r.sid = wk[w].sid
       THEN /\ messages' = Append(messages, UserMessage(wk[w].sid, wk[w].ref, wk[w].rid))
            /\ wk' = [wk EXCEPT ![w].pc = "m_post"]
       ELSE /\ messages' = messages
            /\ wk' = [wk EXCEPT ![w].pc = "done", ![w].resp = "server_error"]
    /\ UNCHANGED <<balance, txns, sessions, executions, lock, paid, now, nreq,
                   serial>>

\* Mutant: a failed webhook call stores no agent message.
send_chat_message_reply_silent(w) ==
    /\ wk[w].pc = "m_post"
    /\ \E outcome \in call_webhook(wk[w].agent) :
          /\ messages' = IF outcome \in {"200", "200_error"}
                         THEN Append(messages, AgentMessage(wk[w].sid, outcome, wk[w].rid))
                         ELSE messages
          /\ wk' = [wk EXCEPT ![w].ret = outcome,
                              ![w].pc = IF outcome \in {"200", "200_error"}
                                        THEN "m_extend" ELSE "done",
                              ![w].resp = CASE outcome \in {"200", "200_error"} -> "none"
                                            [] outcome = "503" -> "apology_accepted"
                                            [] OTHER -> "apology_error"]
    /\ UNCHANGED <<balance, txns, sessions, executions, lock, paid, now, nreq,
                   serial>>

\* validate_webhook_url, requests.post(..., timeout=30) and the agent message
\* created from what came back: the reply on status 200, whatever the keys
\* of its body (extend_session follows), the apology with HTTP 202 on
\* another status, the apology with HTTP 500 on an exception (the
\* ValueError of validate_webhook_url among them).
send_chat_message_reply(w) ==
    /\ wk[w].pc = "m_post"
    /\ \E outcome \in call_webhook(wk[w].agent) :
          IF \E r \in sessions : r.sid = wk[w].sid
          THEN /\ messages' = Append(messages, AgentMessage(wk[w].sid, outcome, wk[w].rid))
               /\ wk' = [wk EXCEPT ![w].ret = outcome,
                                   ![w].pc = IF outcome \in {"200", "200_error"}
                                             THEN "m_extend" ELSE "done",
                                   ![w].resp = CASE outcome \in {"200", "200_error"} -> "none"
                                                 [] outcome = "503" -> "apology_accepted"
                                                 [] OTHER -> "apology_error"]
          ELSE /\ messages' = messages
               /\ wk' = [wk EXCEPT ![w].ret = outcome, ![w].pc = "done",
                                   ![w].resp = "server_error"]
    /\ UNCHANGED <<balance, txns, sessions, executions, lock, paid, now, nreq,
                   serial>>

\* Mutant: the answered turn saves the session without a new expires_at.
extend_session_keep(w) ==
    /\ wk[w].pc = "m_extend"
    /\ sessions' = SaveSession(wk[w].row[1])
    /\ wk' = [wk EXCEPT ![w].pc = "done", ![w].resp = "reply"]
    /\ UNCHANGED <<balance, txns, messages, executions, lock, paid, now, nreq,
                   serial>>

\* chat_session.extend_session(): expires_at = now + 30 minutes; self.save()
\* writes every column of the object the view loaded.
extend_session(w) ==
    /\ wk[w].pc = "m_extend"
    /\ sessions' = SaveSession([wk[w].row[1] EXCEPT !.expires_at = now + SessionTTL])
    /\ wk' = [wk EXCEPT ![w].pc = "done", ![w].resp = "reply"]
    /\ UNCHANGED <<balance, txns, messages, executions, lock, paid, now, nreq,
                   serial>>

\* ------------------------------------------------ cleanup_expired_sessions

\* ChatSession.objects.filter(status='active', expires_at__lt=now)
Lapsed == {r \in sessions : r.status = "active" /\ r.expires_at < now}

\* Mutant: the sweep marks the sessions and does not stamp completed_at.
Sweep_unstamped ==
    /\ Lapsed # {}
    /\ sessions' = {IF r \in Lapsed THEN [r EXCEPT !.status = "expired"] ELSE r
                    : r \in sessions}
    /\ UNCHANGED <<balance, txns, messages, executions, lock, paid, now, nreq,
                   serial, wk>>

\* Command.handle: expired_sessions.update(status='expired', completed_at=now)
\* when count > 0.
Sweep ==
    /\ Lapsed # {}
    /\ sessions' = {IF r \in Lapsed
                    THEN [r EXCEPT !.status = "expired", !.completed_at = now]
                    ELSE r : r \in sessions}
    /\ UNCHANGED <<balance, txns, messages, executions, lock, paid, now, nreq,
                   serial, wk>>

\* ------------------------------------------------- sessions already begun

\* A session alice started and paid for earlier (rows of earlier requests
\* carry request id 0), with its welcome message and k turns of conversation;
\* its agent is in service, or has been taken out of service since.
EarlierTurns(k) ==
    IF k = 0 THEN <<>>
    ELSE <<UserMessage(-1, "hello", 0), AgentMessage(-1, "200", 0)>>
         \o IF k = 1 THEN <<>>
            ELSE <<UserMessage(-1, "hello", 0), AgentMessage(-1, "200", 0)>>

SessionBegun(topped_up) ==
    /\ balance = [alice |-> topped_up - 5, bob |-> 5]
    /\ \E slug \in {s \in AgentSlugs : AgentConfig[s].agent_type = "chat"} :
          /\ txns = <<TopUpEntry("alice", topped_up, "", 0),
                      TopUpEntry("bob", 5, "", 0),
                      UsageEntry("alice", 5, slug, 0)>>
          /\ sessions = {[sid |-> -1, user |-> "alice", agent |-> slug,
                          status |-> "active", fee_charged |-> 5,
                          expires_at |-> SessionTTL, created_at |-> 0,
                          completed_at |-> -1]}
    /\ \E k \in 1..2 :
          messages = <<[session |-> -1, message_type |-> "agent", content |-> "welcome",
                        req |-> 0]>> \o EarlierTurns(k)
    /\ executions = {}
    /\ lock = [u \in Users |-> NoWorker]
    /\ paid = {}
    /\ now = 0
    /\ nreq = 0
    /\ serial \in BOOLEAN
    /\ wk = [w \in Workers |-> IdleWorker]

\* alice had 10 AED before she paid for the session.
InitSession == SessionBegun(10)

SendSteps(w) ==
    \/ \E u \in Users, sid \in SessionIdInputs, text \in MessageInputs :
          send_chat_message(w, u, sid, text)
    \/ send_chat_message_expire(w)
    \/ send_chat_message_limit(w)
    \/ send_chat_message_user(w)
    \/ send_chat_message_reply(w)
    \/ extend_session(w)

EndSteps(w) ==
    \/ \E u \in Users, sid \in SessionIdInputs : end_chat_session(w, u, sid)
    \/ end_chat_session_save(w)

\* A session in use: messages, the end of the session, the sweep, the clock.
NextSession ==
    \/ Tick
    \/ Sweep
    \/ \E w \in Workers : SendSteps(w) \/ EndSteps(w)

SpecSession == InitSession /\ [][NextSession]_vars

\* The worker that serves the StartSession requests when they are kept from
\* overlapping.
OneStarter == "w1"

\* A session in use while new sessions are started, one StartSession at a
\* time.  (deduct_balance cannot return False here: the balance is checked
\* by the view and no other withdrawal runs.)
NextOneStarter ==
    \/ Tick
    \/ Sweep
    \/ \E w \in Workers : SendSteps(w) \/ EndSteps(w)
    \/ \E u \in Users, slug \in SlugInputs : start_chat_session(OneStarter, u, slug)
    \/ start_chat_session_lookup(OneStarter)
    \/ start_chat_session_create(OneStarter)
    \/ start_chat_session_refuse(OneStarter)
    \/ start_chat_session_welcome(OneStarter)
    \/ deduct_balance_select(OneStarter)
    \/ deduct_balance_save(OneStarter)
    \/ deduct_balance_create(OneStarter)
    \/ deduct_balance_return_true(OneStarter)
    \/ storage_failure(OneStarter)

InitOneStarter == InitSession /\ serial = FALSE

SpecOneStarter == InitOneStarter /\ [][NextOneStarter]_vars

\* A SendMessage that gets no further than the expiry check: the lookup
\* fails or is_expired() is true.
send_chat_message_expiry_check(w, u, sid, text) ==
    /\ send_chat_message(w, u, sid, text)
    /\ wk'[w].pc \in {"m_expire", "done"}

\* The sweep beside the expiry checks of SendMessage requests.
NextSweepRace ==
    \/ Tick
    \/ Sweep
    \/ \E w \in Workers :
          \/ \E u \in Users, sid \in SessionIdInputs, text \in MessageInputs :
                send_chat_message_expiry_check(w, u, sid, text)
          \/ send_chat_message_expire(w)

SpecSweepRace == InitSession /\ [][NextSweepRace]_vars

\* The calls of agent webhooks: chat turns on the session and one-shot
\* executions of the form agents, by its owner, who can pay for either form
\* agent (alice had 11 AED).
InitGateway == SessionBegun(11)

NextGateway ==
    \E w \in Workers :
        \/ \E r \in sessions, text \in MessageInputs \ {""} :
              send_chat_message(w, r.user, r.sid, text)
        \/ send_chat_message_limit(w)
        \/ send_chat_message_user(w)
        \/ send_chat_message_reply(w)
        \/ extend_session(w)
        \/ \E r \in sessions,
                slug \in {a \in AgentSlugs : AgentConfig[a].agent_type = "form"} :
              execute_agent(w, r.user, slug)
        \/ execute_agent_paid(w)
        \/ execute_agent_run(w)
        \/ execute_agent_post(w)
        \/ DeductBalanceSteps(w)

SpecGateway == InitGateway /\ [][NextGateway]_vars

\* ------------------------------------- the reply taken from the webhook body

\* JSON values, as response.json() gives them: str, int, None, dict (its
\* items in order), list.
JString(chars) == [type |-> "str", text |-> chars, items |-> <<>>]
JNumber(chars) == [type |-> "int", text |-> chars, items |-> <<>>]
None == [type |-> "NoneType", text |-> <<>>, items |-> <<>>]
JObject(pairs) == [type |-> "dict", text |-> <<>>, items |-> pairs]
JArray(elems) == [type |-> "list", text |-> <<>>, items |-> elems]

RECURSIVE Join(_, _)
Join(texts, sep) ==
    IF texts = <<>> THEN <<>>
    ELSE IF Len(texts) = 1 THEN texts[1]
    ELSE texts[1] \o sep \o Join(Tail(texts), sep)

\* repr(v), the way str() shows a value inside a dict or a list.
RECURSIVE Repr(_)
Repr(v) ==
    CASE v.type = "str" -> <<"'">> \o v.text \o <<"'">>
      [] v.type = "int" -> v.text
      [] v.type = "NoneType" -> <<"N", "o", "n", "e">>
      [] v.type = "dict" ->
           <<"{">> \o Join([i \in 1..Len(v.items) |->
                               <<"'">> \o v.items[i][1] \o <<"'", ":", " ">>
                               \o Repr(v.items[i][2])], <<",", " ">>) \o <<"}">>
      [] v.type = "list" ->
           <<"[">> \o Join([i \in 1..Len(v.items) |-> Repr(v.items[i])],
                           <<",", " ">>) \o <<"]">>

\* str(v)
Str(v) == IF v.type = "str" THEN v.text ELSE Repr(v)

possible_fields ==
    <<<<"o", "u", "t", "p", "u", "t">>,
      <<"r", "e", "s", "p", "o", "n", "s", "e">>,
      <<"m", "e", "s", "s", "a", "g", "e">>,
      <<"r", "e", "p", "l", "y">>,
      <<"r", "e", "s", "u", "l", "t">>,
      <<"t", "e", "x", "t">>,
      <<"c", "o", "n", "t", "e", "n", "t">>>>

\* for field in possible_fields: if field in item: item[field]; break
\* (None when no field of the list is a key of item).
FirstField(item) ==
    LET has(f) == \E i \in 1..Len(item.items) : item.items[i][1] = f
        get(f) == item.items[CHOOSE i \in 1..Len(item.items) : item.items[i][1] = f][2]
        present == {k \in 1..Len(possible_fields) : has(possible_fields[k])}
    IN  IF present = {} THEN None
        ELSE get(possible_fields[CHOOSE k \in present : \A j \in present : k <= j])

\* agent_response before the fallback.
agent_response(response_data) ==
    IF response_data.type = "list" /\ Len(response_data.items) > 0
    THEN LET first_item == response_data.items[1] IN
         IF first_item.type = "dict" THEN FirstField(first_item)
         ELSE IF first_item.type = "str" THEN first_item
         ELSE None
    ELSE IF response_data.type = "dict" THEN FirstField(response_data)
    ELSE IF response_data.type = "str" THEN response_data
    ELSE None

DebugLimit == 200

DebugPrefix ==
    <<"N", "8", "N", " ", "R", "e", "s", "p", "o", "n", "s", "e", " ", "r",
      "e", "c", "e", "i", "v", "e", "d", " ", "b", "u", "t", " ", "c", "o",
      "u", "l", "d", "n", "'", "t", " ", "p", "a", "r", "s", "e", ":", " ">>

\* f"N8N Response received but couldn't parse: {str(response_data)[:200]}..."
DebugText(response_data) ==
    LET shown == Str(response_data) IN
    DebugPrefix
    \o SubSeq(shown, 1, IF Len(shown) < DebugLimit THEN Len(shown) ELSE DebugLimit)
    \o <<".", ".", ".">>

\* content=str(agent_response) of the agent message.
AgentText(response_data) ==
    IF agent_response(response_data) = None
    THEN DebugText(response_data)
    ELSE Str(agent_response(response_data))

\* 'errorMessage' in webhook_response or 'error' in webhook_response, for a
\* dict.
has_error(webhook_response) ==
    /\ webhook_response.type = "dict"
    /\ \E i \in 1..Len(webhook_response.items) :
          webhook_response.items[i][1] \in {<<"e", "r", "r", "o", "r", "M", "e", "s", "s", "a", "g", "e">>,
                                            <<"e", "r", "r", "o", "r">>}

\* Texts and bodies a webhook may answer with.
Hi == JString(<<"h", "i">>)
Lo == JString(<<"l", "o">>)
Bar == JString(<<"b", "a", "r">>)
Five == JNumber(<<"5">>)
LongText == JString([i \in 1..210 |-> "x"])
Foo == <<"f", "o", "o">>
ErrorKey == <<"e", "r", "r", "o", "r">>
ErrorMessageKey == <<"e", "r", "r", "o", "r", "M", "e", "s", "s", "a", "g", "e">>

ResponseBodies ==
    {JObject(<<<<possible_fields[k], Hi>>>>) : k \in 1..7}
    \cup {JObject(<<<<possible_fields[k], Lo>>, <<possible_fields[j], Hi>>>>) :
            j, k \in {1, 2, 7}}
    \cup {JArray(<<JObject(<<<<possible_fields[k], Hi>>>>)>>) : k \in {1, 2}}
    \cup {JArray(<<Hi>>), JArray(<<Hi, Lo>>), Hi, JString(<<>>),
          JArray(<<JObject(<<<<possible_fields[1], Hi>>>>),
                   JObject(<<<<possible_fields[1], Lo>>>>)>>),
          JObject(<<<<Foo, Bar>>>>), JArray(<<JObject(<<<<Foo, Bar>>>>)>>),
          JObject(<<<<Foo, Bar>>, <<possible_fields[4], Hi>>>>),
          JObject(<<>>), JArray(<<>>), JArray(<<Five>>), JArray(<<JArray(<<Hi>>)>>),
          JArray(<<None>>), Five, None,
          JObject(<<<<possible_fields[1], Five>>>>),
          JObject(<<<<possible_fields[1], JObject(<<<<Foo, Bar>>>>)>>>>),
          JObject(<<<<possible_fields[1], None>>>>),
          JObject(<<<<possible_fields[1], None>>, <<possible_fields[2], Hi>>>>),
          JArray(<<JObject(<<<<possible_fields[3], None>>>>)>>),
          JObject(<<<<Foo, LongText>>>>), LongText, JArray(<<LongText>>),
          JObject(<<<<ErrorKey, Bar>>>>),
          JObject(<<<<ErrorMessageKey, Bar>>, <<possible_fields[1], Hi>>>>)}

\* ------------------------------------------------------ the pure functions

\* The process that calls the functions examined on their own.
Caller == "w1"

\* One call of validate_webhook_url(url) with settings.DEBUG = debug: the
\* caller holds the arguments and what came back.
call_validate_webhook_url(url, debug) ==
    /\ wk[Caller].pc = "idle"
    /\ wk' = [wk EXCEPT ![Caller] =
                [IdleWorker EXCEPT !.op = "validate_webhook_url", !.pc = "done",
                                   !.row = <<[url |-> url, DEBUG |-> debug]>>,
                                   !.ret = validate_webhook_url(url, debug)]]
    /\ UNCHANGED <<balance, txns, sessions, messages, executions, lock, paid, now,
                   nreq, serial>>

\* One 200 reply of the webhook with JSON body response_data, turned into
\* the text of the agent message.
call_agent_response(response_data) ==
    /\ wk[Caller].pc = "idle"
    /\ wk' = [wk EXCEPT ![Caller] =
                [IdleWorker EXCEPT !.op = "agent_response", !.pc = "done",
                                   !.row = <<[response_data |-> response_data,
                                              content |-> AgentText(response_data)]>>]]
    /\ UNCHANGED <<balance, txns, sessions, messages, executions, lock, paid, now,
                   nreq, serial>>

NextFunctions ==
    \/ \E response_data \in ResponseBodies : call_agent_response(response_data)
    \/ \E url \in UrlInputs, debug \in BOOLEAN : call_validate_webhook_url(url, debug)

SpecFunctions == InitConcurrent /\ [][NextFunctions]_vars

\* ------------------------------------------------------------------ claims

Done(w, op) == wk[w].pc = "done" /\ wk[w].op = op

\* The balance an account was opened with.
OpeningBalance(u) ==
    SumAmounts(SelectSeq(txns, LAMBDA e : e.user = u /\ e.req = 0))

\* One withdraw of amt with outcome r, run alone on balance b.
RunAlone(b, amt, r) == r = "raised" \/ (r = "true" <=> b >= amt)
After(b, amt, r) == IF r = "true" THEN b - amt ELSE b
SerialOrder(b, a1, r1, a2, r2, final) ==
    /\ RunAlone(b, a1, r1)
    /\ RunAlone(After(b, a1, r1), a2, r2)
    /\ final = After(After(b, a1, r1), a2, r2)

\* C1: two concurrent withdraw calls on one account end as some serial order
\* of the two would: the outcomes and the final balance are those of running
\* one call after the other, so both never succeed when the balance covers
\* only one of them.
C1_ConcurrentWithdrawsSerial ==
    \A v, w \in Workers :
        (/\ v # w
         /\ Done(v, "withdraw") /\ Done(w, "withdraw")
         /\ wk[v].user = wk[w].user)
        => LET u == wk[v].user
               b == OpeningBalance(u)
           IN  \/ SerialOrder(b, wk[v].amt, wk[v].ret, wk[w].amt, wk[w].ret,
                              balance[u])
               \/ SerialOrder(b, wk[w].amt, wk[w].ret, wk[v].amt, wk[v].ret,
                              balance[u])

\* Balance 10 and two withdraw(6): one succeeded, one was refused, 4 is left.
C1_Witness ==
    /\ Done("w1", "withdraw") /\ Done("w2", "withdraw")
    /\ wk["w1"].user = "alice" /\ wk["w2"].user = "alice"
    /\ OpeningBalance("alice") = 10
    /\ wk["w1"].amt = 6 /\ wk["w2"].amt = 6
    /\ wk["w1"].ret = "true" /\ wk["w2"].ret = "false"
    /\ balance["alice"] = 4

\* C2: ledger conservation: after every deposit and withdraw call the balance
\* of each account equals the sum of the amounts of its ledger entries.
C2_LedgerConservation ==
    \A u \in Users : balance[u] = SumAmounts(EntriesOf(u))

\* A deposit and a withdrawal have both been recorded for alice.
C2_Witness ==
    /\ \E i \in 1..Len(txns) :
          txns[i].req > 0 /\ txns[i].type = "top_up" /\ txns[i].user = "alice"
    /\ \E i \in 1..Len(txns) :
          txns[i].type = "agent_usage" /\ txns[i].user = "alice"

\* A step in which worker w returns from deduct_balance with a result.
WithdrawReturns(w) ==
    /\ wk[w].pc \in {"d_true", "d_false"}
    /\ wk'[w].pc # wk[w].pc

\* C3: a withdraw with balance < amount returns false, leaves the balance
\* unchanged and appends no entry; a withdraw with balance >= amount returns
\* true, decrements the balance by exactly the amount and appends exactly one
\* agent_usage entry of -amount; no balance is ever below zero.
C3_WithdrawContract ==
    [][\A w \in Workers :
          WithdrawReturns(w) =>
             LET u == wk[w].user
                 a == wk[w].amt
             IN  IF balance[u] < a
                 THEN /\ wk'[w].ret = "false"
                      /\ balance' = balance
                      /\ txns' = txns
                 ELSE /\ wk'[w].ret = "true"
                      /\ balance' = [balance EXCEPT ![u] = balance[u] - a]
                      /\ balance'[u] >= 0
                      /\ Len(txns') = Len(txns) + 1
                      /\ SubSeq(txns', 1, Len(txns)) = txns
                      /\ txns'[Len(txns')].user = u
                      /\ txns'[Len(txns')].amount = 0 - a
                      /\ txns'[Len(txns')].type = "agent_usage"]_vars

\* One withdraw was refused and another one went through.
C3_Witness ==
    \E v, w \in Workers :
        /\ Done(v, "withdraw") /\ wk[v].ret = "false" /\ EntriesBy(wk[v].rid) = <<>>
        /\ Done(w, "withdraw") /\ wk[w].ret = "true" /\ wk[w].dBal = 0 - wk[w].amt

\* The requests that credit a Stripe payment.
StripeDone(w) == Done(w, "verify_payment") \/ Done(w, "handle_webhook")

\* The entries that carry payment reference ref and another request wrote.
CreditedBefore(w) ==
    SelectSeq(txns, LAMBDA e : e.stripe_session_id = wk[w].ref /\ e.req # wk[w].rid)

\* C4: a deposit requested twice, one request after the other, with the same
\* Stripe checkout session id credits the account exactly once: the second
\* request leaves the balance unchanged, appends no entry and still returns
\* success.
C4_IdempotentDeposit ==
    serial =>
    /\ \A ref \in StripeSessions :
          /\ Len(EntriesWithRef(ref)) <= 1
          /\ LET u == StripeCheckout[ref].client_reference_id
             IN  balance[u] = OpeningBalance(u)
                     + StripeCheckout[ref].amount * Len(EntriesWithRef(ref))
    /\ \A w \in Workers :
          (StripeDone(w) /\ CreditedBefore(w) # <<>>)
          => /\ wk[w].resp \in {"already_processed", "success"}
             /\ wk[w].dBal = 0
             /\ EntriesBy(wk[w].rid) = <<>>

\* A second verification of a payment that was already credited.
C4_Witness ==
    \E w \in Workers :
        /\ serial
        /\ Done(w, "verify_payment")
        /\ wk[w].resp = "already_processed"
        /\ Len(EntriesWithRef(wk[w].ref)) = 1
        /\ balance[wk[w].user] = OpeningBalance(wk[w].user) + wk[w].amt

\* C5: when the verify-payment path and the webhook path process the same
\* paid checkout session concurrently, the account is credited exactly once
\* and exactly one top_up entry carries that payment reference.
C5_ConcurrentPathsCreditOnce ==
    \A v, w \in Workers :
        (/\ Done(v, "verify_payment") /\ Done(w, "handle_webhook")
         /\ wk[v].ref = wk[w].ref)
        => LET ref == wk[v].ref
               u == StripeCheckout[ref].client_reference_id
           IN  /\ Len(EntriesWithRef(ref)) <= 1
               /\ balance[u] <= OpeningBalance(u) + StripeCheckout[ref].amount

\* A step in which the ledger call of worker w ends by an exception.
LedgerCallRaises(w) ==
    /\ wk[w].pc \in {"d_save", "d_create", "a_save", "a_create"}
    /\ wk'[w].ret = "raised"

\* C7: when persisting the balance or the entry fails inside withdraw or
\* deposit, the call aborts with an error and the stored balance and the
\* ledger entries are those from before the call.
C7_AllOrNothing ==
    [][\A w \in Workers :
          LedgerCallRaises(w) =>
             /\ balance'[wk[w].user] = wk[w].ubal
             /\ balance' = balance
             /\ txns' = txns
             /\ EntriesBy(wk[w].rid) = <<>>]_vars

\* A withdraw and a deposit that both ended by an exception.
C7_Witness ==
    \E v, w \in Workers :
        /\ Done(v, "withdraw") /\ wk[v].ret = "raised"
        /\ Done(w, "deposit") /\ wk[w].ret = "raised"

\* C6: in every reachable state of the whole system (chat StartSession,
\* one-shot execution, direct-access payment, wallet-deduct API, Stripe
\* deposit) the ledger entries of each account sum to its balance: every
\* entry recorded since the account was opened is matched by the balance
\* change it states.
C6_SystemConservation ==
    \A u \in Users :
        balance[u] - OpeningBalance(u)
            = SumAmounts(SelectSeq(txns, LAMBDA e : e.user = u /\ e.req > 0))

\* An active agent of chat type.
IsChatAgent(slug) ==
    /\ slug \in AgentSlugs
    /\ AgentConfig[slug].is_active
    /\ AgentConfig[slug].agent_type = "chat"

MessagesBy(r) == SelectSeq(messages, LAMBDA m : m.req = r)

\* The active sessions of (u, slug) that request rid did not create.
OtherActive(u, slug, rid) ==
    {r \in sessions : r.user = u /\ r.agent = slug /\ r.status = "active"
                      /\ r.sid # rid}

\* C8: StartSession for an active chat agent, by an account with balance >=
\* price and no active session for that agent, decreases the balance by
\* exactly the price (one agent_usage entry), creates exactly one session,
\* active, with fee_charged = price and expires_at = creation time + 30
\* minutes, and appends exactly one welcome agent message to it.  (Requests
\* served one after the other; the storage does not fail.)
C8_StartSessionEffects ==
    serial =>
    \A w \in Workers :
        LET u == wk[w].user
            slug == wk[w].agent
            rid == wk[w].rid
            mine == {r \in sessions : r.sid = rid}
        IN  (/\ Done(w, "start_chat_session")
             /\ IsChatAgent(slug)
             /\ balance[u] - wk[w].dBal >= AgentConfig[slug].price
             /\ OtherActive(u, slug, rid) = {}
             /\ wk[w].ret # "raised")
            => /\ wk[w].resp = "started"
               /\ wk[w].sid = rid
               /\ wk[w].dBal = 0 - AgentConfig[slug].price
               /\ Len(EntriesBy(rid)) = 1
               /\ EntriesBy(rid)[1].user = u
               /\ EntriesBy(rid)[1].amount = 0 - AgentConfig[slug].price
               /\ EntriesBy(rid)[1].type = "agent_usage"
               /\ Cardinality(mine) = 1
               /\ \A r \in mine :
                     /\ r.user = u /\ r.agent = slug
                     /\ r.status = "active"
                     /\ r.fee_charged = AgentConfig[slug].price
                     /\ r.created_at <= now
                     /\ r.expires_at = r.created_at + SessionTTL
               /\ Len(MessagesBy(rid)) = 1
               /\ MessagesBy(rid)[1].session = rid
               /\ MessagesBy(rid)[1].message_type = "agent"
               /\ MessagesBy(rid)[1].content = "welcome"
               /\ Len(SelectSeq(messages, LAMBDA m : m.session = rid)) = 1

\* Price 5 and balance 5: balance 0, an active session, one welcome message.
C8_Witness ==
    /\ serial
    /\ Done("w1", "start_chat_session")
    /\ wk["w1"].resp = "started"
    /\ wk["w1"].user = "alice"
    /\ AgentConfig[wk["w1"].agent].price = 5
    /\ OpeningBalance("alice") = 5
    /\ balance["alice"] = 0
    /\ \E r \in sessions : r.sid = wk["w1"].rid /\ r.status = "active"
    /\ Len(MessagesBy(wk["w1"].rid)) = 1
    /\ now > 0

\* A step in which worker w answers its request.
Returns(w) ==
    /\ wk'[w].pc = "done"
    /\ wk[w].pc # "done" \/ wk'[w].rid # wk[w].rid

\* The request of w found the balance below the price: when it looked at
\* request.user.wallet_balance, or in deduct_balance.
FoundBalanceBelowPrice(w) ==
    \/ /\ wk'[w].rid # wk[w].rid
       /\ balance[wk'[w].user] < AgentConfig[wk'[w].agent].price
    \/ /\ wk'[w].rid = wk[w].rid
       /\ wk[w].ret = "false"

\* C9: StartSession by an account whose balance is below the agent's price
\* fails with an insufficient-funds error, and when it returns no session
\* row created by it exists, the balance is unchanged and no ledger entry or
\* message was appended by it.
C9_StartSessionInsufficientFunds ==
    [][\A w \in Workers :
          (/\ Returns(w)
           /\ wk'[w].op = "start_chat_session"
           /\ IsChatAgent(wk'[w].agent)
           /\ FoundBalanceBelowPrice(w))
          => /\ wk'[w].resp \in {"insufficient_balance", "payment_failed"}
             /\ ~\E r \in sessions' : r.sid = wk'[w].rid
             /\ wk'[w].dBal = 0
             /\ balance' = balance
             /\ SelectSeq(txns', LAMBDA e : e.req = wk'[w].rid) = <<>>
             /\ SelectSeq(messages', LAMBDA m : m.req = wk'[w].rid) = <<>>]_vars

\* A StartSession whose payment was refused in deduct_balance, after it had
\* created its session row.
C9_Witness ==
    \E w \in Workers :
        /\ Done(w, "start_chat_session")
        /\ wk[w].resp = "payment_failed"
        /\ wk[w].sid = wk[w].rid
        /\ ~\E r \in sessions : r.sid = wk[w].rid

\* C10: if an active session already exists for (account, agent),
\* StartSession returns that session's id and changes nothing (no session
\* row, no withdrawal, no ledger entry, no message), for every value of the
\* account's balance.  (Requests served one after the other.)
C10_StartSessionShortCircuit ==
    serial =>
    \A w \in Workers :
        LET u == wk[w].user
            slug == wk[w].agent
            rid == wk[w].rid
        IN  (/\ Done(w, "start_chat_session")
             /\ IsChatAgent(slug)
             /\ OtherActive(u, slug, rid) # {})
            => /\ wk[w].resp = "existing"
               /\ wk[w].sid \in {r.sid : r \in OtherActive(u, slug, rid)}
               /\ wk[w].dBal = 0
               /\ EntriesBy(rid) = <<>>
               /\ MessagesBy(rid) = <<>>
               /\ ~\E r \in sessions : r.sid = rid

\* C11: when StartSession requests for the same (account, agent) pair do not
\* overlap, every reachable state, under any interleaving of SendMessage,
\* EndSession and Sweep with them, holds at most one active session per pair.
C11_OneActiveSessionPerPair ==
    \A u \in Users, slug \in AgentSlugs : Cardinality(ActiveSessions(u, slug)) <= 1

TerminalStatuses == {"completed", "expired", "abandoned", "failed"}

MessagesOf(sid) == SelectSeq(messages, LAMBDA m : m.session = sid)

\* C12: once the stored status of a session is completed, expired, abandoned
\* or failed, no step of SendMessage (gateway call and expiry extension
\* included), EndSession or Sweep changes it again.
C12_TerminalStatusFinal ==
    [][\A r \in sessions :
          r.status \in TerminalStatuses
          => \E q \in sessions' : q.sid = r.sid /\ q.status = r.status]_vars

\* The step in which worker w takes a new request of kind op.
Begins(w, op) == wk'[w].rid # wk[w].rid /\ wk'[w].op = op

\* The caller's active session a request names, in the state it is issued.
Target(w) ==
    {r \in sessions : r.sid = wk'[w].sid /\ r.user = wk'[w].user
                      /\ r.status = "active"}

\* C13: a SendMessage issued on a session that is not active appends nothing
\* and makes no gateway call, and no message is appended to a session whose
\* stored status is terminal, whatever SendMessage is in flight.
C13_NoMessageAfterTerminal ==
    [][/\ \A w \in Workers :
             (Begins(w, "send_chat_message") /\ Target(w) = {})
             => /\ wk'[w].pc = "done"
                /\ wk'[w].ret = "none"
                /\ messages' = messages
       /\ \A r \in sessions :
             r.status # "active"
             => SelectSeq(messages', LAMBDA m : m.session = r.sid) = MessagesOf(r.sid)]_vars

\* C14: in every reachable state the number of user messages stored for a
\* session is at most the message_limit of its agent.
C14_UserMessagesWithinLimit ==
    \A r \in sessions : UserMessageCount(r.sid) <= message_limit(r.agent)

\* A step taken by worker w from position pc.
StepsFrom(w, pc) == wk[w].pc = pc /\ wk'[w] # wk[w]

\* C15: a SendMessage on an active, unexpired session that already holds
\* message_limit user messages fails with the message-limit error (HTTP
\* 400), sets the session to completed, appends no message and makes no
\* gateway call.
C15_MessageLimitEnforced ==
    [][\A w \in Workers :
          /\ (/\ Begins(w, "send_chat_message")
              /\ wk'[w].resp # "invalid_input"
              /\ \E r \in Target(w) :
                    /\ ~(now > r.expires_at)
                    /\ UserMessageCount(r.sid) >= message_limit(r.agent))
             => /\ wk'[w].pc = "m_limit"
                /\ UNCHANGED <<sessions, messages>>
          /\ StepsFrom(w, "m_limit")
             => /\ wk'[w].pc = "done"
                /\ wk'[w].resp = "limit_reached"
                /\ HttpStatus(wk'[w].resp) = 400
                /\ wk'[w].ret = "none"
                /\ messages' = messages
                /\ \E q \in sessions' :
                      /\ q.sid = wk[w].sid
                      /\ q.status = "completed"
                      /\ q.completed_at = now]_vars

\* With message_limit = 2, the third send: refused, session completed.
C15_Witness ==
    /\ serial
    /\ Done("w1", "send_chat_message")
    /\ wk["w1"].resp = "limit_reached"
    /\ UserMessageCount(wk["w1"].sid) = 2
    /\ MessagesBy(wk["w1"].rid) = <<>>
    /\ \E r \in sessions : r.sid = wk["w1"].sid /\ r.status = "completed"

\* C16: SendMessage on an active session whose expires_at is in the past
\* sets its status to expired, fails with the session-expired error (HTTP
\* 400), appends no message and makes no gateway call; an EndSession issued
\* on a session that is expired fails with NotFound and changes nothing.
C16_ExpiryEnforced ==
    [][\A w \in Workers :
          /\ (/\ Begins(w, "send_chat_message")
              /\ wk'[w].resp # "invalid_input"
              /\ \E r \in Target(w) : r.expires_at < now)
             => /\ wk'[w].pc = "m_expire"
                /\ UNCHANGED <<sessions, messages>>
          /\ StepsFrom(w, "m_expire")
             => /\ wk'[w].pc = "done"
                /\ wk'[w].resp = "session_expired"
                /\ HttpStatus(wk'[w].resp) = 400
                /\ wk'[w].ret = "none"
                /\ messages' = messages
                /\ \E q \in sessions' : q.sid = wk[w].sid /\ q.status = "expired"
          /\ (/\ Begins(w, "end_chat_session")
              /\ \E r \in sessions : r.sid = wk'[w].sid /\ r.status = "expired")
             => /\ wk'[w].pc = "done"
                /\ wk'[w].resp = "not_found"
                /\ HttpStatus(wk'[w].resp) = 404
                /\ UNCHANGED <<sessions, messages, balance, txns>>]_vars

\* The owner's EndSession refused on a session that a SendMessage (which
\* does not stamp completed_at) has marked expired.
C16_Witness ==
    /\ serial
    /\ Done("w1", "end_chat_session")
    /\ wk["w1"].resp = "not_found"
    /\ \E r \in sessions :
          /\ r.sid = wk["w1"].sid /\ r.user = wk["w1"].user
          /\ r.status = "expired" /\ r.completed_at = -1

\* C17: a SendMessage that passes the expiry and limit checks stores exactly
\* one user message and then exactly one agent message, whether the gateway
\* call succeeds or fails; on failure the agent message is the apology with
\* the error in its metadata and the request leaves the session as it is.
C17_OneUserOneAgentMessage ==
    [][\A w \in Workers :
          /\ (/\ Begins(w, "send_chat_message")
              /\ wk'[w].resp # "invalid_input"
              /\ \E r \in Target(w) :
                    /\ ~(now > r.expires_at)
                    /\ UserMessageCount(r.sid) < message_limit(r.agent))
             => /\ wk'[w].pc = "m_user"
                /\ UNCHANGED <<sessions, messages>>
          /\ StepsFrom(w, "m_user")
             => /\ wk'[w].pc = "m_post"
                /\ Len(messages') = Len(messages) + 1
                /\ SubSeq(messages', 1, Len(messages)) = messages
                /\ messages'[Len(messages')].session = wk[w].sid
                /\ messages'[Len(messages')].message_type = "user"
                /\ messages'[Len(messages')].content = wk[w].ref
                /\ sessions' = sessions
          /\ StepsFrom(w, "m_post")
             => LET mine == SelectSeq(messages', LAMBDA m : m.req = wk[w].rid)
                    last == messages'[Len(messages')]
                IN  /\ Len(messages') = Len(messages) + 1
                    /\ SubSeq(messages', 1, Len(messages)) = messages
                    /\ Len(mine) = 2
                    /\ mine[1].message_type = "user"
                    /\ mine[2] = last
                    /\ last.session = wk[w].sid
                    /\ last.message_type = "agent"
                    /\ sessions' = sessions
                    /\ wk'[w].ret \in GatewayOutcomes
                    /\ wk'[w].ret = "200"
                       => last.content = "reply" /\ wk'[w].pc = "m_extend"
                    /\ wk'[w].ret \in {"503", "timeout", "bad_json", "rejected_url"}
                       => /\ last.content \in {"trouble_processing",
                                                "technical_difficulties"}
                          /\ last.metadata.error = wk'[w].ret
                          /\ wk'[w].pc = "done"
          /\ StepsFrom(w, "m_extend")
             => messages' = messages /\ wk'[w].pc = "done"]_vars

\* A turn whose gateway call timed out: the user message and the apology are
\* stored and the session is still active.
C17_Witness ==
    \E w \in Workers :
        /\ Done(w, "send_chat_message")
        /\ wk[w].ret = "timeout"
        /\ Len(MessagesBy(wk[w].rid)) = 2
        /\ MessagesBy(wk[w].rid)[2].content = "technical_difficulties"
        /\ MessagesBy(wk[w].rid)[2].metadata.error = "timeout"
        /\ \E r \in sessions : r.sid = wk[w].sid /\ r.status = "active"

\* C18: for every kind of gateway failure the SendMessage response reports
\* success (200, or 202 as the non-blocking status), never an error status,
\* and carries the stored user message and the apology.
C18_GatewayFailureReportsSuccess ==
    \A w \in Workers :
        (/\ Done(w, "send_chat_message")
         /\ wk[w].ret \in GatewayOutcomes \ {"200"})
        => /\ HttpStatus(wk[w].resp) \in {200, 202}
           /\ Len(MessagesBy(wk[w].rid)) = 2

\* C19: EndSession on a session that is active and owned by the caller sets
\* its status to completed and stamps completed_at; on a session that is
\* absent, owned by another account or not active it fails with NotFound and
\* changes no session, message or balance.
C19_EndSession ==
    [][\A w \in Workers :
          /\ Begins(w, "end_chat_session")
             => /\ UNCHANGED <<sessions, messages, balance, txns>>
                /\ IF Target(w) = {}
                   THEN /\ wk'[w].pc = "done"
                        /\ wk'[w].resp = "not_found"
                        /\ HttpStatus(wk'[w].resp) = 404
                   ELSE wk'[w].pc = "e_save"
          /\ StepsFrom(w, "e_save")
             => /\ wk'[w].pc = "done"
                /\ wk'[w].resp = "ended"
                /\ \E q \in sessions' :
                      /\ q.sid = wk[w].sid
                      /\ q.status = "completed"
                      /\ q.completed_at = now
                /\ \A r \in sessions : r.sid # wk[w].sid => r \in sessions'
                /\ UNCHANGED <<messages, balance, txns>>]_vars

\* A session ended by its owner after the clock has advanced.
C19_Witness ==
    \E w \in Workers :
        /\ Done(w, "end_chat_session")
        /\ wk[w].resp = "ended"
        /\ now > 0
        /\ \E r \in sessions :
              /\ r.sid = wk[w].sid /\ r.user = wk[w].user
              /\ r.status = "completed" /\ r.completed_at = now

FeeWithdrawn(r) ==
    \E i \in 1..Len(txns) :
        /\ txns[i].user = r.user
        /\ txns[i].type = "agent_usage"
        /\ txns[i].amount = -Price(r.agent)
        /\ txns[i].req = (IF r.sid = -1 THEN 0 ELSE r.sid)

\* C27: StartSession withdraws the fee before it creates the session: in
\* every reachable state, intermediate states of a running StartSession
\* included, each stored ChatSession row has had its fee withdrawn from the
\* owner's balance.
C27_NoUnpaidSession ==
    \A r \in sessions : FeeWithdrawn(r)

\* C29: whenever the wallet-deduct API answers success, the request has
\* lowered the account's balance by exactly the requested amount and has
\* appended one agent_usage entry, also with other withdrawals on the account
\* running between its balance check and its deduct_balance call.
C29_DeductApiSuccessMeansDebit ==
    \A w \in Workers :
        (Done(w, "wallet_deduct_api") /\ wk[w].resp = "success")
        => /\ wk[w].dBal = -wk[w].amt
           /\ Len(EntriesBy(wk[w].rid)) = 1
           /\ EntriesBy(wk[w].rid)[1].type = "agent_usage"
           /\ EntriesBy(wk[w].rid)[1].amount = -wk[w].amt

\* C30: every stored session whose status is completed or expired has
\* completed_at set, whichever operation made the transition and however
\* the operations on the session interleave.
C30_TerminalHasCompletedAt ==
    \A r \in sessions :
        r.status \in {"completed", "expired"} => r.completed_at # -1

\* The stored row of session sid after the step is expired.
ExpiredAfter(sid) == \E q \in sessions' : q.sid = sid /\ q.status = "expired"

\* C26: with the sweep running beside the expiry checks of SendMessage, a
\* write of either to an active session whose expires_at has passed stores
\* status expired, and a session stored as expired stays expired under every
\* later write of the two: each interleaving ends with the session expired,
\* whichever writes last.
C26_SweepAndExpiryCheckConverge ==
    [][\A r \in sessions :
          /\ (r.status = "active" /\ r.expires_at < now /\ r \notin sessions')
             => ExpiredAfter(r.sid)
          /\ r.status = "expired" => ExpiredAfter(r.sid)]_vars

\* The sweep has marked the session while a SendMessage that loaded it as
\* active is about to save its own expiry.
C26_Witness ==
    \E w \in Workers :
        /\ wk[w].pc = "m_expire"
        /\ wk[w].row[1].status = "active"
        /\ \E r \in sessions :
              /\ r.sid = wk[w].sid
              /\ r.status = "expired"
              /\ r.completed_at = now

\* The call the caller has just made of validate_webhook_url.
Validated == Done(Caller, "validate_webhook_url")
ValidatedUrl == wk[Caller].row[1].url
ValidatedDebug == wk[Caller].row[1].DEBUG

\* The host of the URL is loopback: the name localhost or a loopback IP.
IsLoopbackHost(url) ==
    url.hostname \in {Host_localhost, Host_loopback_ip, Host_loopback_ip2,
                      Host_loopback_ip6}

\* C23: in development mode an http(s) URL whose host is loopback is
\* accepted exactly when its port is one of 5678, 8000, 8080, 3000 (so
\* http://localhost:5678 is accepted and http://localhost:9999 is rejected);
\* in production mode every URL on a loopback host is rejected.
C23_LoopbackRule ==
    (/\ Validated
     /\ ValidatedUrl.scheme \in {"http", "https"}
     /\ IsLoopbackHost(ValidatedUrl))
    => IF ValidatedDebug
       THEN wk[Caller].ret = Accepted <=> ValidatedUrl.port \in {5678, 8000, 8080, 3000}
       ELSE wk[Caller].ret # Accepted

\* The reasons validate_webhook_url gives.
RejectionReasons ==
    {"Only HTTP/HTTPS URLs are allowed", "Invalid hostname in URL",
     "Only HTTPS URLs allowed in production",
     "Localhost/internal addresses not allowed in production",
     "Internal/private IP addresses not allowed in production",
     "Loopback IP only allowed on ports [5678, 8000, 8080, 3000]",
     "Internal/private IP addresses not allowed",
     "Suspicious domain pattern detected"}

\* The host is a literal IP of the private, reserved, link-local, multicast
\* or unspecified class (loopback, which has its own rule, left aside).
IsInternalIp(url) ==
    url.hostname \in {Host_private_ip, Host_private_ip2, Host_link_local_ip,
                      Host_multicast_ip, Host_reserved_ip, Host_unspecified_ip}

\* C24: a URL with the internal:// scheme is accepted in both modes; any
\* other URL whose host is a literal private, reserved, link-local, multicast
\* or unspecified IP is rejected in both modes; in production mode every URL
\* that is not https is rejected and an https URL on a public domain or
\* public IP is accepted; every rejection carries its reason.
C24_RemainingRules ==
    Validated =>
        /\ ValidatedUrl.scheme = "internal" => wk[Caller].ret = Accepted
        /\ (ValidatedUrl.scheme # "internal" /\ IsInternalIp(ValidatedUrl))
           => wk[Caller].ret # Accepted
        /\ (~ValidatedDebug /\ ValidatedUrl.scheme \notin {"https", "internal"})
           => wk[Caller].ret # Accepted
        /\ (/\ ~ValidatedDebug
            /\ ValidatedUrl.scheme = "https"
            /\ ValidatedUrl.hostname \in {Host_public_domain, Host_form_domain,
                                           Host_public_ip})
           => wk[Caller].ret = Accepted
        /\ wk[Caller].ret # Accepted => wk[Caller].ret \in RejectionReasons

\* http://169.254.169.254/ refused in development mode.
C24_Witness ==
    /\ Validated
    /\ ValidatedDebug
    /\ ValidatedUrl = [scheme |-> "http", hostname |-> Host_link_local_ip, port |-> 0]
    /\ wk[Caller].ret = "Internal/private IP addresses not allowed"

\* The call the caller has just made of the reply extraction.
Extracted == Done(Caller, "agent_response")
Body == wk[Caller].row[1].response_data
Stored == wk[Caller].row[1].content

\* The fields of the priority list that are keys of item, by position.
Candidates(item) ==
    {k \in 1..Len(possible_fields) :
        \E i \in 1..Len(item.items) : item.items[i][1] = possible_fields[k]}

\* The value of the first of them.
CandidateValue(item) ==
    LET k == CHOOSE c \in Candidates(item) : \A j \in Candidates(item) : c <= j
    IN  item.items[CHOOSE i \in 1..Len(item.items) :
                      item.items[i][1] = possible_fields[k]][2]

\* The stored text is the value v: the string itself, or for a value that
\* is not a string a text made from it, not the debug string.
IsTextOf(v) ==
    IF v.type = "str" THEN Stored = v.text ELSE Stored # DebugText(Body)

\* C21: the text stored for a 200 reply with JSON body B is the value of the
\* first field of output, response, message, reply, result, text, content
\* that the first element of a non-empty array B (when an object) or the
\* object B has, the first element itself or B itself when that is a string,
\* and in every other case the debug string with the first 200 characters
\* of the rendered payload.
C21_ReplyExtraction ==
    Extracted =>
        IF Body.type = "list" /\ Body.items # <<>>
        THEN LET E == Body.items[1] IN
             IF E.type = "dict" /\ Candidates(E) # {} THEN IsTextOf(CandidateValue(E))
             ELSE IF E.type = "str" THEN Stored = E.text
             ELSE Stored = DebugText(Body)
        ELSE IF Body.type = "dict" /\ Candidates(Body) # {}
        THEN IsTextOf(CandidateValue(Body))
        ELSE IF Body.type = "str" THEN Stored = Body.text
        ELSE /\ Stored = DebugText(Body)
             /\ Len(Stored) <= Len(DebugPrefix) + DebugLimit + 3
             /\ Body = JObject(<<<<Foo, Bar>>>>) => Contains(Stored, Bar.text)

Apologies == {"trouble_processing", "technical_difficulties"}

\* C22: a 200 reply whose JSON object carries an errorMessage or error key is
\* a gateway failure in every call of a webhook: the one-shot execution is
\* marked failed, and the chat turn stores the apology, not a text taken
\* from the body, and does not extend the session.
C22_ErrorMarkerIsFailure ==
    \A w \in Workers :
        /\ (Done(w, "execute_agent") /\ wk[w].ret = "200_error")
           => \E x \in executions : x.id = wk[w].rid /\ x.status = "failed"
        /\ (Done(w, "send_chat_message") /\ wk[w].ret = "200_error")
           => /\ Len(MessagesBy(wk[w].rid)) = 2
              /\ MessagesBy(wk[w].rid)[2].content \in Apologies
              /\ wk[w].resp # "reply"

\* C25: the step that ends a SendMessage whose webhook call succeeded sets
\* the session's expires_at to the time of that step plus 30 minutes; a
\* SendMessage that ends in a gateway failure writes no session; one that
\* ends in session-expired or message-limit-reached saves the expires_at it
\* read, which with requests served one after the other is the stored one:
\* expires_at is left as it is.
C25_ExpiresAtAdvancedOnSuccessOnly ==
    [][\A w \in Workers :
          LET Kept == \A r \in sessions : r.sid = wk[w].sid =>
                         \E q \in sessions' :
                            /\ q.sid = r.sid
                            /\ q.expires_at = wk[w].row[1].expires_at
                            /\ serial => q.expires_at = r.expires_at
          IN
          /\ (StepsFrom(w, "m_extend") /\ wk[w].ret = "200")
             => /\ wk'[w].pc = "done"
                /\ wk'[w].resp = "reply"
                /\ \E q \in sessions' :
                      q.sid = wk[w].sid /\ q.expires_at = now + SessionTTL
          /\ (/\ StepsFrom(w, "m_post")
              /\ wk'[w].ret \in {"503", "timeout", "bad_json", "rejected_url"})
             => wk'[w].pc = "done" /\ sessions' = sessions
          /\ StepsFrom(w, "m_expire") => Kept
          /\ StepsFrom(w, "m_limit") => Kept]_vars

\* An answered turn after the clock has moved: the session now runs until
\* the time of the answer plus 30 minutes.
C25_Witness ==
    \E w \in Workers :
        /\ Done(w, "send_chat_message")
        /\ wk[w].ret = "200"
        /\ wk[w].resp = "reply"
        /\ now > 0
        /\ \E r \in sessions :
              /\ r.sid = wk[w].sid
              /\ r.expires_at = now + SessionTTL
              /\ r.expires_at # wk[w].row[1].expires_at

\* validate_webhook_url accepts the webhook URL of the agent.
UrlAccepted(slug) == validate_webhook_url(webhook_url(slug), DEBUG) = Accepted

\* C28: a POST to an agent's webhook is made, in a chat turn as in a one-shot
\* execution, only when validate_webhook_url has accepted the URL in the same
\* request; when it refuses, nothing is posted and the operation fails: the
\* chat turn stores the apology with the error and answers with it, the
\* execution is saved as failed.
C28_ValidatedBeforePost ==
    [][\A w \in Workers :
          /\ StepsFrom(w, "m_post")
             => LET last == messages'[Len(messages')] IN
                /\ wk'[w].ret \in PostOutcomes => UrlAccepted(wk[w].agent)
                /\ ~UrlAccepted(wk[w].agent)
                   => /\ wk'[w].ret = "rejected_url"
                      /\ wk'[w].pc = "done"
                      /\ wk'[w].resp = "apology_error"
                      /\ Len(messages') = Len(messages) + 1
                      /\ last.req = wk[w].rid
                      /\ last.content \in Apologies
                      /\ last.metadata.error = "rejected_url"
          /\ StepsFrom(w, "x_run")
             => LET x == CHOOSE e \in executions' : e.id = wk[w].rid IN
                IF UrlAccepted(wk[w].agent)
                THEN wk'[w].pc = "x_post" /\ x.status = "running"
                ELSE /\ wk'[w].pc = "done"
                     /\ wk'[w].ret = "rejected_url"
                     /\ wk'[w].resp = "invalid_webhook_url"
                     /\ x.status = "failed"
          /\ StepsFrom(w, "x_post")
             => UrlAccepted(wk[w].agent) /\ wk'[w].ret \in PostOutcomes]_vars

\* A chat turn and a one-shot execution whose webhook URLs were refused:
\* the apology is stored, the execution is failed.
C28_Witness ==
    \E v, w \in Workers :
        /\ Done(v, "send_chat_message")
        /\ wk[v].ret = "rejected_url"
        /\ MessagesBy(wk[v].rid)[2].metadata.error = "rejected_url"
        /\ Done(w, "execute_agent")
        /\ wk[w].ret = "rejected_url"
        /\ \E x \in executions : x.id = wk[w].rid /\ x.status = "failed"

====
